---- MODULE Spec2Model ----
(***************************************************************************)
(* Verification model of phosphor (src-tauri): the wizard state machine    *)
(* (state.rs), the command orchestration around it (commands/*.rs), the    *)
(* process execution layer (pm3/connection.rs) and the clone command       *)
(* builder (pm3/command_builder.rs).                                       *)
(***************************************************************************)
EXTENDS Integers, Sequences, FiniteSets, TLC

VARIABLES
    current,    \* WizardMachine.current : WizardState
    port,       \* WizardMachine.port : Option<String>
    model,      \* WizardMachine.model : Option<String>
    firmware,   \* WizardMachine.firmware : Option<String>
    last,       \* name of the action the most recent accepted transition applied
    since,      \* the stages passed since the machine last entered DeviceConnected
    child,      \* HfOperationState.child : Mutex<Option<CommandChild>>
    dump_path,  \* HfOperationState.dump_path : Mutex<Option<String>>
    tasks,      \* the command invocations in flight: position and locals of each
    run,        \* one call of run_command / run_command_streaming: arguments and position
    built,      \* one call of build_clone_command: arguments and returned value
    returned,   \* one call of transition: action, state it was applied in, Result
    found,      \* the device the most recent accepted DeviceFound reported
    parsed      \* one call of strip_ansi or parse_lf_search: input and returned value

fsmVars == <<current, port, model, firmware, last, since>>

hfVars == <<child, dump_path>>

callVars == <<run, built, returned, found, parsed>>

vars == <<current, port, model, firmware, last, since, child, dump_path, tasks, run, built, returned, found, parsed>>

\* Option::None
NONE == "None"

\* Option<String> for the port, whose text is a sequence of characters:
\* None is the empty sequence, Some(p) the one-element sequence <<p>>.
NoPort == <<>>

Some(p) == <<p>>

-----------------------------------------------------------------------------
(* cards/types.rs                                                          *)

\* The card types the model draws its inputs from: one LF cloneable type,
\* one LF non-cloneable type and the HF types the HF commands dispatch on.
CardType == {"EM4100", "Hitag", "MifareClassic1K", "MifareUltralight", "DESFire"}

BlankType == {"T5577", "EM4305", "MagicMifareGen1a", "MagicMifareGen2", "MagicMifareGen3",
              "MagicMifareGen4GTU", "MagicMifareGen4GDM", "MagicUltralight", "IClassBlank"}

frequency(card_type) ==
    IF card_type \in {"MifareClassic1K", "MifareClassic4K", "MifareUltralight",
                      "NTAG", "DESFire", "IClass"}
    THEN "HF" ELSE "LF"

is_cloneable(card_type) == card_type \notin {"DESFire", "COTAG", "EM4x50", "Hitag"}

recommended_blank(card_type) ==
    CASE card_type \in {"MifareClassic1K", "MifareClassic4K"} -> "MagicMifareGen1a"
      [] card_type \in {"MifareUltralight", "NTAG"} -> "MagicUltralight"
      [] card_type = "DESFire" -> "MagicMifareGen4GTU"
      [] card_type = "IClass" -> "IClassBlank"
      [] OTHER -> "T5577"

-----------------------------------------------------------------------------
(* state.rs : WizardState, WizardAction                                    *)

Idle == [step |-> "Idle"]
DetectingDevice == [step |-> "DetectingDevice"]
ScanningCard == [step |-> "ScanningCard"]
Verifying == [step |-> "Verifying"]

DeviceConnected(p, m, f) ==
    [step |-> "DeviceConnected", port |-> p, model |-> m, firmware |-> f]

state_name(s) == s.step

action_name(a) == a.action

\* The message with its two arguments in the other order.
NotValidFrom_swapped(a, s) ==
    <<"InvalidTransition", state_name(s), "is not valid from", action_name(a)>>

\* AppError::InvalidTransition(format!("{} is not valid from {}", ...))
NotValidFrom(a, s) ==
    <<"InvalidTransition", action_name(a), "is not valid from", state_name(s)>>

RequiresDeviceInfo(name) ==
    <<"InvalidTransition", name, "requires persistent device info">>

\* An Ok that drops the stored device info whenever the successor is Idle.
Ok_forgetting_in_idle(m, next) ==
    IF next = [step |-> "Idle"]
    THEN [ok |-> TRUE, err |-> NONE, current |-> next,
          port |-> NoPort, model |-> NONE, firmware |-> NONE]
    ELSE [ok |-> TRUE, err |-> NONE, current |-> next,
          port |-> m.port, model |-> m.model, firmware |-> m.firmware]

\* self.current = next; Ok(&self.current): the device info is left as it is.
Ok(m, next) == [ok |-> TRUE, err |-> NONE, current |-> next,
                port |-> m.port, model |-> m.model, firmware |-> m.firmware]

\* An error return that also drops the stored device info.
Err_clearing(m, e) == [ok |-> FALSE, err |-> e, current |-> m.current,
                       port |-> NoPort, model |-> NONE, firmware |-> NONE]

\* return Err(e): the machine is left as it was.
Err(m, e) == [ok |-> FALSE, err |-> e, current |-> m.current,
              port |-> m.port, model |-> m.model, firmware |-> m.firmware]

\* A DeviceConnected built with model and firmware in each other's place.
FromDeviceInfo_swapped(m, name) ==
    IF m.port # NoPort /\ m.model # NONE /\ m.firmware # NONE
    THEN Ok(m, DeviceConnected(m.port[1], m.firmware, m.model))
    ELSE Err(m, RequiresDeviceInfo(name))

\* match (&self.port, &self.model, &self.firmware) { (Some, Some, Some) => DeviceConnected, _ => Err }
FromDeviceInfo(m, name) ==
    IF m.port # NoPort /\ m.model # NONE /\ m.firmware # NONE
    THEN Ok(m, DeviceConnected(m.port[1], m.model, m.firmware))
    ELSE Err(m, RequiresDeviceInfo(name))

\* A MarkComplete arm that matches VerificationComplete { .. }.
CanMarkComplete_AnyResult(s) == s.step = "VerificationComplete"

\* The state pattern of the MarkComplete arm:
\* WizardState::VerificationComplete { success: true, .. }
CanMarkComplete(s) == s.step = "VerificationComplete" /\ s.success = TRUE

\* A StartWrite arm that also matches a write already in progress.
CanStartWrite_WhileWriting(s) == s.step \in {"BlankDetected", "Writing"}

\* A StartWrite arm that also matches WaitingForBlank.
CanStartWrite_BeforeDetection(s) == s.step \in {"BlankDetected", "WaitingForBlank"}

\* The state pattern of the StartWrite arm: WizardState::BlankDetected { .. }
CanStartWrite(s) == s.step = "BlankDetected"

\* A Retry arm that matches WizardState::Error { .. }.
CanRetry_any_error(s) == s.step = "Error"

\* The state pattern of the Retry arm: WizardState::Error { recoverable: true, .. }
CanRetry(s) == s.step = "Error" /\ s.recoverable = TRUE

\* A BlankReady arm that leaves ready_to_write false.
BlankDetected_NotReady(blank_type, existing_data_type) ==
    [step |-> "BlankDetected", blank_type |-> blank_type, ready_to_write |-> FALSE,
     existing_data_type |-> existing_data_type]

\* The successor built by the BlankReady arm.
BlankDetected(blank_type, existing_data_type) ==
    [step |-> "BlankDetected", blank_type |-> blank_type, ready_to_write |-> TRUE,
     existing_data_type |-> existing_data_type]

\* A Complete that fills its target from the clock reading as well.
Complete_target_from_clock(a, now) ==
    [step |-> "Complete", source |-> a.source, target |-> now, timestamp |-> now]

\* The successor built by the MarkComplete arm; now is the value of
\* chrono::Local::now().to_rfc3339().
Complete(a, now) ==
    [step |-> "Complete", source |-> a.source, target |-> a.target, timestamp |-> now]

\* The match (&self.current, &action) of transition, arms in source order.
\* now is the value of chrono::Local::now() read by the MarkComplete arm.
TransitionTable(m, a, now) ==
    LET s == m.current
        st == s.step
        ac == a.action
    IN
    CASE st = "Idle" /\ ac = "StartDetection" -> Ok(m, DetectingDevice)
      [] st = "DetectingDevice" /\ ac = "DeviceFound" ->
            [ok |-> TRUE, err |-> NONE,
             current |-> DeviceConnected(a.port, a.model, a.firmware),
             port |-> Some(a.port), model |-> a.model, firmware |-> a.firmware]
      [] st = "DeviceConnected" /\ ac = "StartScan" -> Ok(m, ScanningCard)
      [] st = "ScanningCard" /\ ac = "CardFound" ->
            Ok(m, [step |-> "CardIdentified", frequency |-> a.frequency,
                   card_type |-> a.card_type, card_data |-> a.card_data,
                   cloneable |-> a.cloneable,
                   recommended_blank |-> a.recommended_blank])
      [] st = "CardIdentified" /\ ac = "StartHfProcess" ->
            Ok(m, [step |-> "HfProcessing", phase |-> "KeyCheck", keys_found |-> 0,
                   keys_total |-> 0, elapsed_secs |-> 0])
      [] st = "HfProcessing" /\ ac = "UpdateHfProgress" ->
            Ok(m, [step |-> "HfProcessing", phase |-> a.phase,
                   keys_found |-> a.keys_found, keys_total |-> a.keys_total,
                   elapsed_secs |-> a.elapsed_secs])
      [] st = "HfProcessing" /\ ac = "HfProcessComplete" ->
            Ok(m, [step |-> "HfDumpReady", dump_info |-> a.dump_info])
      [] st = "HfProcessing" /\ ac = "CancelHfProcess" ->
            FromDeviceInfo(m, "CancelHfProcess")
      [] st = "HfDumpReady" /\ ac = "ProceedToWrite" ->
            Ok(m, [step |-> "WaitingForBlank", expected_blank |-> a.blank_type])
      [] st = "HfDumpReady" /\ ac = "BackToScan" -> FromDeviceInfo(m, "BackToScan")
      [] st = "CardIdentified" /\ ac = "ProceedToWrite" ->
            Ok(m, [step |-> "WaitingForBlank", expected_blank |-> a.blank_type])
      [] st = "WaitingForBlank" /\ ac = "BlankReady" ->
            Ok(m, BlankDetected(a.blank_type, a.existing_data_type))
      [] st = "BlankDetected" /\ ac = "ReDetectBlank" ->
            Ok(m, [step |-> "WaitingForBlank", expected_blank |-> s.blank_type])
      [] CanStartWrite(s) /\ ac = "StartWrite" ->
            Ok(m, [step |-> "Writing", progress |-> 0, current_block |-> NONE,
                   total_blocks |-> NONE])
      [] st = "Writing" /\ ac = "UpdateWriteProgress" ->
            Ok(m, [step |-> "Writing", progress |-> a.progress,
                   current_block |-> a.current_block,
                   total_blocks |-> a.total_blocks])
      [] st = "Writing" /\ ac = "WriteFinished" -> Ok(m, Verifying)
      [] st = "Verifying" /\ ac = "VerificationResult" ->
            Ok(m, [step |-> "VerificationComplete", success |-> a.success,
                   mismatched_blocks |-> a.mismatched_blocks])
      [] ac = "MarkComplete" /\ CanMarkComplete(s) ->
            Ok(m, Complete(a, now))
      [] ac = "Retry" /\ CanRetry(s) -> Ok(m, Idle)
      [] st = "Complete" /\ ac = "StartDetection" -> Ok(m, DetectingDevice)
      [] st \in {"CardIdentified", "WaitingForBlank", "HfProcessing"} /\ ac = "BackToScan" ->
            FromDeviceInfo(m, "BackToScan")
      [] st \in {"Complete", "Error"} /\ ac = "SoftReset" -> FromDeviceInfo(m, "SoftReset")
      [] st = "DeviceConnected" /\ ac = "LoadSavedCard" ->
            Ok(m, [step |-> "CardIdentified", frequency |-> a.frequency,
                   card_type |-> a.card_type, card_data |-> a.uid,
                   cloneable |-> a.cloneable,
                   recommended_blank |-> a.recommended_blank])
      [] OTHER -> Err(m, NotValidFrom(a, s))

\* A transition whose Reset and Disconnect blocks leave the stored device info.
transition_reset_keeps_device(m, a, now) ==
    CASE a.action \in {"Reset", "Disconnect"} -> Ok(m, Idle)
      [] a.action = "ReportError" ->
            Ok(m, [step |-> "Error", message |-> a.message,
                   user_message |-> a.user_message,
                   recoverable |-> a.recoverable,
                   recovery_action |-> a.recovery_action])
      [] OTHER -> TransitionTable(m, a, now)

\* A transition whose Disconnect clears the session context and leaves the
\* state as it is.
transition_disconnect_in_place(m, a, now) ==
    CASE a.action = "Reset" ->
            [ok |-> TRUE, err |-> NONE, current |-> Idle,
             port |-> NoPort, model |-> NONE, firmware |-> NONE]
      [] a.action = "Disconnect" ->
            [ok |-> TRUE, err |-> NONE, current |-> m.current,
             port |-> NoPort, model |-> NONE, firmware |-> NONE]
      [] a.action = "ReportError" ->
            Ok(m, [step |-> "Error", message |-> a.message,
                   user_message |-> a.user_message,
                   recoverable |-> a.recoverable,
                   recovery_action |-> a.recovery_action])
      [] OTHER -> TransitionTable(m, a, now)

\* A transition whose ReportError block is skipped when the machine is in Error.
transition_no_error_in_error(m, a, now) ==
    CASE a.action \in {"Reset", "Disconnect"} ->
            [ok |-> TRUE, err |-> NONE, current |-> Idle,
             port |-> NoPort, model |-> NONE, firmware |-> NONE]
      [] a.action = "ReportError" /\ m.current.step # "Error" ->
            Ok(m, [step |-> "Error", message |-> a.message,
                   user_message |-> a.user_message,
                   recoverable |-> a.recoverable,
                   recovery_action |-> a.recovery_action])
      [] OTHER -> TransitionTable(m, a, now)

\* WizardMachine::transition: m is the machine [current, port, model, firmware];
\* the result carries Ok/Err and the machine after the call.
transition(m, a, now) ==
    CASE a.action \in {"Reset", "Disconnect"} ->
            [ok |-> TRUE, err |-> NONE, current |-> Idle,
             port |-> NoPort, model |-> NONE, firmware |-> NONE]
      [] a.action = "ReportError" ->
            Ok(m, [step |-> "Error", message |-> a.message,
                   user_message |-> a.user_message,
                   recoverable |-> a.recoverable,
                   recovery_action |-> a.recovery_action])
      [] OTHER -> TransitionTable(m, a, now)

\* The machine as a record, for transition.
Machine == [current |-> current, port |-> port, model |-> model, firmware |-> firmware]

\* WizardMachine::new
MachineNew ==
    /\ current = Idle
    /\ port = NoPort
    /\ model = NONE
    /\ firmware = NONE

NoStage == [identified |-> FALSE, waiting |-> FALSE, blank_ready |-> FALSE, card |-> NONE]

\* The stages on record after action a took the machine to state s: a card
\* identified, then a blank awaited, then a blank reported by BlankReady,
\* each counted only after the one before, and card, the card_data of the
\* card last identified; entering DeviceConnected clears the record.
Stages(h, a, s) ==
    CASE s.step = "DeviceConnected" -> NoStage
      [] s.step = "CardIdentified" ->
            [NoStage EXCEPT !.identified = TRUE, !.card = s.card_data]
      [] s.step = "WaitingForBlank" ->
            [h EXCEPT !.waiting = h.identified, !.blank_ready = FALSE]
      [] s.step = "BlankDetected" ->
            [h EXCEPT !.blank_ready = h.waiting /\ a.action = "BlankReady"]
      [] OTHER -> h

\* One call machine.transition(a) under the machine lock: the swap of the
\* machine fields and the returned Result.
Apply(a, now) ==
    LET r == transition(Machine, a, now) IN
    /\ current' = r.current
    /\ port' = r.port
    /\ model' = r.model
    /\ firmware' = r.firmware
    /\ last' = IF r.ok THEN a.action ELSE last
    /\ since' = IF r.ok THEN Stages(since, a, r.current) ELSE since

-----------------------------------------------------------------------------
(* Strings that reach the subprocess boundary are sequences of one-character *)
(* strings, so that patterns and forbidden characters are checked            *)
(* character by character as the code does.                                  *)

Digits == {"0", "1", "2", "3", "4", "5", "6", "7", "8", "9"}

\* [A-Za-z]
Letters ==
    {"a", "b", "c", "d", "e", "f", "g", "h", "i", "j", "k", "l", "m", "n", "o", "p", "q",
     "r", "s", "t", "u", "v", "w", "x", "y", "z", "A", "B", "C", "D", "E", "F", "G", "H",
     "I", "J", "K", "L", "M", "N", "O", "P", "Q", "R", "S", "T", "U", "V", "W", "X", "Y",
     "Z"}

\* regex \w
WordChars == Digits \cup Letters \cup {"_"}

\* str::contains(char)
contains(s, ch) == \E i \in 1..Len(s) : s[i] = ch

\* str::starts_with
starts_with(s, p) == Len(p) <= Len(s) /\ SubSeq(s, 1, Len(p)) = p

\* The text of s after its first n characters.
after(s, n) == SubSeq(s, n + 1, Len(s))

all_in(s, chars) == \A i \in 1..Len(s) : s[i] \in chars

LowerCase ==
    <<"a", "b", "c", "d", "e", "f", "g", "h", "i", "j", "k", "l", "m", "n", "o", "p", "q",
      "r", "s", "t", "u", "v", "w", "x", "y", "z">>

UpperCase ==
    <<"A", "B", "C", "D", "E", "F", "G", "H", "I", "J", "K", "L", "M", "N", "O", "P", "Q",
      "R", "S", "T", "U", "V", "W", "X", "Y", "Z">>

\* str::to_uppercase
to_uppercase(s) ==
    [i \in 1..Len(s) |->
        IF \E n \in 1..26 : LowerCase[n] = s[i]
        THEN UpperCase[CHOOSE n \in 1..26 : LowerCase[n] = s[i]]
        ELSE s[i]]

\* str::to_lowercase; the (?i) flag of a pattern compares texts lowered.
to_lowercase(s) ==
    [i \in 1..Len(s) |->
        IF \E n \in 1..26 : UpperCase[n] = s[i]
        THEN LowerCase[CHOOSE n \in 1..26 : UpperCase[n] = s[i]]
        ELSE s[i]]

\* str::eq_ignore_ascii_case
eq_ignore_ascii_case(a, b) == to_lowercase(a) = to_lowercase(b)

\* HashMap::get(key): None is <<>>, Some(v) is <<v>>.
get(decoded, key) == IF key \in DOMAIN decoded THEN <<decoded[key]>> ELSE <<>>

COM == <<"C", "O", "M">>

TTY_ACM == <<"/", "d", "e", "v", "/", "t", "t", "y", "A", "C", "M">>

TTY_USB == <<"/", "d", "e", "v", "/", "t", "t", "y", "U", "S", "B">>

TTY_USBMODEM == <<"/", "d", "e", "v", "/", "t", "t", "y", ".", "u", "s", "b", "m", "o", "d", "e", "m">>

\* connection.rs PORT_RE.is_match:
\*   ^(COM[1-9]\d*|/dev/tty(ACM|USB)\d{1,2}|/dev/tty\.usbmodem\w+)$
PORT_RE(p) ==
    \/ /\ starts_with(p, COM)
       /\ LET r == after(p, Len(COM)) IN
          Len(r) >= 1 /\ r[1] \in Digits \ {"0"} /\ all_in(r, Digits)
    \/ \E pre \in {TTY_ACM, TTY_USB} :
          /\ starts_with(p, pre)
          /\ LET r == after(p, Len(pre)) IN Len(r) \in {1, 2} /\ all_in(r, Digits)
    \/ /\ starts_with(p, TTY_USBMODEM)
       /\ LET r == after(p, Len(TTY_USBMODEM)) IN Len(r) >= 1 /\ all_in(r, WordChars)

\* cmd.contains(';') || cmd.contains('\n') || cmd.contains('\r')
has_separator(s) == contains(s, ";") \/ contains(s, "\n") \/ contains(s, "\r")

\* connection.rs execute_pm3, lines 79-99: the checks before any spawn.
execute_pm3_accepts(p, cmd) ==
    /\ PORT_RE(p)
    /\ ~has_separator(cmd)
    /\ ~has_separator(p)

\* A streaming entry that checks the port and leaves the command unchecked.
run_command_streaming_accepts_port_only(p, cmd) == PORT_RE(p)

\* connection.rs run_command_streaming, lines 261-270: the checks before spawn_pm3.
run_command_streaming_accepts(p, cmd) ==
    /\ PORT_RE(p)
    /\ ~has_separator(cmd)

\* The escape character \x1b, one character of a text.
ESC == "\\x1b"

\* output_parser.rs ANSI_RE, \x1b\[[0-9;]*[mGKHJ]: the length of the match
\* that starts at position i of s, 0 when there is none. The parameter run
\* and the final letter are disjoint classes, so the greedy run decides.
RECURSIVE ansi_params_end(_, _)
ansi_params_end(s, j) ==
    IF j <= Len(s) /\ s[j] \in Digits \cup {";"} THEN ansi_params_end(s, j + 1) ELSE j

ANSI_RE(s, i) ==
    IF i + 1 <= Len(s) /\ s[i] = ESC /\ s[i + 1] = "["
    THEN LET j == ansi_params_end(s, i + 2) IN
         IF j <= Len(s) /\ s[j] \in {"m", "G", "K", "H", "J"} THEN j - i + 1 ELSE 0
    ELSE 0

\* Regex::replace_all(input, ""): one pass from the left over the
\* non-overlapping matches; the text after a match is scanned from the
\* match's end.
RECURSIVE replace_all_from(_, _)
replace_all_from(s, i) ==
    IF i > Len(s) THEN <<>>
    ELSE IF ANSI_RE(s, i) > 0 THEN replace_all_from(s, i + ANSI_RE(s, i))
    ELSE <<s[i]>> \o replace_all_from(s, i + 1)

\* output_parser.rs strip_ansi
strip_ansi(input) == replace_all_from(input, 1)

\* str::trim, over the one white-space character of the modelled texts.
RECURSIVE trim(_)
trim(s) ==
    IF s = <<>> THEN s
    ELSE IF s[1] = " " THEN trim(Tail(s))
    ELSE IF s[Len(s)] = " " THEN trim(SubSeq(s, 1, Len(s) - 1))
    ELSE s

\* command_builder.rs build_hf_autopwn
build_hf_autopwn(card_type) ==
    IF card_type = "MifareClassic4K"
    THEN <<"h", "f", " ", "m", "f", " ", "a", "u", "t", "o", "p", "w", "n", " ", "-", "-", "4", "k">>
    ELSE <<"h", "f", " ", "m", "f", " ", "a", "u", "t", "o", "p", "w", "n">>

-----------------------------------------------------------------------------
(* Input domains: the payloads the callers of transition supply.           *)

\* (port, model, firmware) triples connection::detect_device can return; the
\* second is the capabilities-mismatch result of connection.rs.
DeviceInfo ==
    { [port |-> COM \o <<"3">>, model |-> "Proxmark3 Easy", firmware |-> "v4.20728"],
      [port |-> TTY_ACM \o <<"0">>, model |-> "Proxmark3", firmware |-> "mismatched"] }

\* CardData values, identified by their uid.
CardDataSet == {"0F00112233", "A1B2C3D4"}

\* CardSummary values.
CardSummarySet == {"EM4100:0F00112233", "T5577:0F00112233"}

\* Values chrono::Local::now() can return.
Timestamps == {"ts1", "ts2"}

\* dump_info strings built by hf_autopwn and hf_dump.
DumpInfo == {"All keys recovered. Full dump saved.", "Partial key recovery. Partial dump saved.",
             "Keys recovered.", "Key recovery completed.", "iCLASS dump complete.",
             "NTAG dump complete.", "Ultralight dump complete."}

ExistingData == {NONE, "EM4100"}

\* The CardFound action finish_scan builds for a decoded card.
CardFound(card_type, card_data) ==
    [action |-> "CardFound", frequency |-> frequency(card_type), card_type |-> card_type,
     card_data |-> card_data, cloneable |-> is_cloneable(card_type),
     recommended_blank |-> recommended_blank(card_type)]

\* A ReportError built without the suggested recovery action.
ReportError_no_recovery(message, user_message, recoverable, recovery_action) ==
    [action |-> "ReportError", message |-> message, user_message |-> user_message,
     recoverable |-> recoverable, recovery_action |-> NONE]

ReportError(message, user_message, recoverable, recovery_action) ==
    [action |-> "ReportError", message |-> message, user_message |-> user_message,
     recoverable |-> recoverable, recovery_action |-> recovery_action]

\* A UserAction enum that also has the DeviceFound variant.
UserAction_with_DeviceFound ==
    {[action |-> n] : n \in {"Reset", "Retry", "StartDetection", "StartScan", "StartWrite",
                             "BackToScan", "SoftReset", "Disconnect", "ReDetectBlank"}}
    \cup {[action |-> "DeviceFound", port |-> "COM3", model |-> "Proxmark3 Easy",
           firmware |-> "v4.0"]}

\* wizard.rs UserAction: the actions the frontend can apply through wizard_action.
UserAction ==
    {[action |-> n] : n \in {"Reset", "Retry", "StartDetection", "StartScan", "StartWrite",
                             "BackToScan", "SoftReset", "Disconnect", "ReDetectBlank"}}
    \cup {[action |-> "ProceedToWrite", blank_type |-> b] : b \in BlankType}
    \cup {[action |-> "MarkComplete", source |-> "EM4100:0F00112233", target |-> t] :
            t \in CardSummarySet}
    \cup {[action |-> "LoadSavedCard", frequency |-> frequency(c), card_type |-> c,
           uid |-> u, raw |-> u, decoded |-> <<>>, cloneable |-> cl,
           recommended_blank |-> recommended_blank(c)] :
            c \in CardType, u \in CardDataSet, cl \in BOOLEAN}

\* WizardAction values only backend code constructs.
BackendAction ==
    {[action |-> n] : n \in {"StartHfProcess", "CancelHfProcess", "WriteFinished"}}
    \cup {[action |-> "DeviceFound", port |-> d.port, model |-> d.model,
           firmware |-> d.firmware] : d \in DeviceInfo}
    \cup {CardFound(c, u) : c \in CardType, u \in CardDataSet}
    \cup {[action |-> "UpdateHfProgress", phase |-> ph, keys_found |-> k,
           keys_total |-> 32, elapsed_secs |-> k] : ph \in {"KeyCheck", "Nested"}, k \in {0, 1}}
    \cup {[action |-> "HfProcessComplete", dump_info |-> d] : d \in DumpInfo}
    \cup {[action |-> "BlankReady", blank_type |-> b, existing_data_type |-> e] :
            b \in BlankType, e \in ExistingData}
    \cup {[action |-> "UpdateWriteProgress", progress |-> p, current_block |-> p \div 50,
           total_blocks |-> 2] : p \in {30, 100}}
    \cup {[action |-> "VerificationResult", success |-> ok, mismatched_blocks |-> mm] :
            ok \in BOOLEAN, mm \in {<<>>, <<0>>}}
    \cup {ReportError(msg, msg, rec, ra) :
            msg \in {"Write failed", "No card detected"}, rec \in BOOLEAN,
            ra \in {NONE, "Retry", "Reconnect"}}

WizardAction == UserAction \cup BackendAction

\* The clock readings that can differ in effect for action a: only the
\* MarkComplete arm reads the clock.
Clock(a) == IF a.action = "MarkComplete" THEN Timestamps ELSE {"ts1"}



-----------------------------------------------------------------------------
(* Command invocations (commands/*.rs). Each tauri command is an async     *)
(* task; a step of a task is one critical section under the machine lock   *)
(* (or the HfOperationState lock) together with the device I/O awaited     *)
(* before it, whose result is drawn in the step.                           *)

\* The invocation slots: two commands can be in flight at once.
Tasks == {1, 2}

IdleTask ==
    [cmd |-> "none", pc |-> "idle", out |-> "none",
     blank |-> NONE, card_type |-> NONE, step |-> 0,
     proc |-> "none", lines |-> 0, result |-> "none",
     dump_file |-> NONE, dump_complete |-> FALSE, dump_partial |-> FALSE, keys_found |-> 0,
     pw_set |-> FALSE, chk |-> "none", wiped |-> FALSE, reverify |-> "none",
     cloned |-> FALSE, gen |-> NONE, sent |-> <<>>, uid |-> NONE]

\* Option<CommandChild>: the empty slot is <<>>, the handle of the process
\* spawned by invocation t is Some(t) = <<t>>.
NoChild == <<>>

\* HfOperationState::new
HfOperationStateNew ==
    /\ child = NoChild
    /\ dump_path = NONE

\* A new invocation takes the lowest free slot.
Free(t) ==
    /\ tasks[t].pc = "idle"
    /\ \A u \in Tasks : u < t => tasks[u].pc # "idle"

\* The invocation in slot t moves to position pc with its locals updated.
Goto(t, pc, upd) == tasks' = [tasks EXCEPT ![t] = [upd EXCEPT !.pc = pc]]

\* A fresh invocation of cmd in slot t, at position pc.
Begin(t, cmd, pc) == [IdleTask EXCEPT !.cmd = cmd, !.pc = pc]

\* The invocation in slot t returns to the frontend with locals upd. out says how:
\*   "ok"                 Ok(state) after the forward transition
\*   "reported"           Ok(state) after ReportError was applied
\*   "device_error"       Err: a device command failed, nothing was applied
\*   "precondition"       Err: a precondition failed after the guard, nothing was applied
\*   "invalid_transition" Err: a later transition was rejected, nothing was applied
\* An invocation rejected by its first guard returns Err without having
\* changed anything and never occupies a slot.
ReturnWith(t, upd, out) ==
    tasks' = [tasks EXCEPT ![t] = [upd EXCEPT !.pc = "returned", !.out = out]]

Return(t, out) == ReturnWith(t, [IdleTask EXCEPT !.cmd = tasks[t].cmd], out)

\* The frontend has received the result of invocation t.
respond(t) ==
    /\ tasks[t].pc = "returned"
    /\ tasks' = [tasks EXCEPT ![t] = IdleTask]
    /\ UNCHANGED <<fsmVars, callVars, hfVars>>

\* `m.transition(a)?` as the last statement before Ok(m.current.clone()).
ApplyAndReturn(t, a, okOut) ==
    /\ Apply(a, "ts1")
    /\ UNCHANGED callVars
    /\ Return(t, IF transition(Machine, a, "ts1").ok THEN okOut ELSE "invalid_transition")

RetryError(message) == ReportError(message, message, TRUE, "Retry")

\* wizard.rs wizard_action: one transition under the lock.
wizard_action(A) ==
    /\ \E a \in A : \E now \in Clock(a) : Apply(a, now)
    /\ UNCHANGED callVars
    /\ UNCHANGED <<child, dump_path, tasks>>

\* device.rs detect_device, up to the await of connection::detect_device.
detect_device_start(t) ==
    /\ Free(t)
    /\ Apply([action |-> "StartDetection"], "ts1")
    /\ UNCHANGED callVars
    /\ IF transition(Machine, [action |-> "StartDetection"], "ts1").ok
       THEN tasks' = [tasks EXCEPT ![t] = Begin(t, "detect_device", "detecting")]
       ELSE tasks' = [tasks EXCEPT ![t] = IdleTask]
    /\ UNCHANGED hfVars

\* device.rs detect_device, after connection::detect_device returned.
detect_device_finish(t) ==
    /\ tasks[t].pc = "detecting"
    /\ \/ \E d \in DeviceInfo :
            ApplyAndReturn(t, [action |-> "DeviceFound", port |-> d.port,
                               model |-> d.model, firmware |-> d.firmware], "ok")
       \/ ApplyAndReturn(t, RetryError("PM3 not found on any port"), "reported")
    /\ UNCHANGED hfVars

\* scan.rs scan_card, up to the first await.
scan_card_start(t) ==
    /\ Free(t)
    /\ IF current.step = "DeviceConnected"
       THEN /\ Apply([action |-> "StartScan"], "ts1")
            /\ UNCHANGED callVars
            /\ tasks' = [tasks EXCEPT ![t] = Begin(t, "scan_card", "scanning")]
       ELSE /\ tasks' = [tasks EXCEPT ![t] = IdleTask]
            /\ UNCHANGED <<fsmVars, callVars>>
    /\ UNCHANGED hfVars

\* scan.rs scan_card after lf search / hf search: finish_scan or ReportError.
scan_card_finish(t) ==
    /\ tasks[t].pc = "scanning"
    /\ \/ \E c \in CardType, u \in CardDataSet : ApplyAndReturn(t, CardFound(c, u), "ok")
       \/ ApplyAndReturn(t, RetryError("No card detected"), "reported")
       \/ ApplyAndReturn(t, ReportError("PM3 command failed", "Scan failed. Check device connection.",
                                        TRUE, "Reconnect"), "reported")
    /\ UNCHANGED hfVars

\* cards/types.rs MagicGeneration
MagicGeneration == {"Gen1a", "Gen2", "Gen3", "Gen4GTU", "Gen4GDM"}

\* blank.rs generation_to_blank
generation_to_blank(gen) ==
    CASE gen = "Gen1a" -> "MagicMifareGen1a"
      [] gen = "Gen2" -> "MagicMifareGen2"
      [] gen = "Gen3" -> "MagicMifareGen3"
      [] gen = "Gen4GTU" -> "MagicMifareGen4GTU"
      [] gen = "Gen4GDM" -> "MagicMifareGen4GDM"

\* blank.rs expected_generation: None is <<>>, Some(gen) is <<gen>>.
expected_generation(blank) ==
    CASE blank = "MagicMifareGen1a" -> <<"Gen1a">>
      [] blank = "MagicMifareGen2" -> <<"Gen2">>
      [] blank = "MagicMifareGen3" -> <<"Gen3">>
      [] blank = "MagicMifareGen4GTU" -> <<"Gen4GTU">>
      [] blank = "MagicMifareGen4GDM" -> <<"Gen4GDM">>
      [] OTHER -> <<>>

\* The blank types detect_blank hands to detect_magic_mifare.
MagicMifareBlanks == {generation_to_blank(gen) : gen \in MagicGeneration}

BlankReady(blank_type, existing_data_type) ==
    [action |-> "BlankReady", blank_type |-> blank_type,
     existing_data_type |-> existing_data_type]

\* blank.rs detect_blank: the guard, which reads expected_blank and applies nothing.
detect_blank_start(t) ==
    /\ Free(t)
    /\ IF current.step = "WaitingForBlank"
       THEN tasks' = [tasks EXCEPT ![t] =
                        [Begin(t, "detect_blank", "detecting_blank") EXCEPT
                            !.blank = current.expected_blank]]
       ELSE tasks' = [tasks EXCEPT ![t] = IdleTask]
    /\ UNCHANGED <<fsmVars, callVars, hfVars>>

\* blank.rs detect_t5577 / detect_em4305 / detect_magic_mifare /
\* detect_magic_ultralight / detect_iclass_blank, after the device answered.
detect_blank_finish(t) ==
    LET expected_blank == tasks[t].blank
        notDetected == RetryError("Blank not detected")
    IN
    /\ tasks[t].pc = "detecting_blank"
    /\ CASE expected_blank = "T5577" ->
              \/ /\ Return(t, "device_error")
                 /\ UNCHANGED <<fsmVars, callVars>>
              \/ \E e \in ExistingData : ApplyAndReturn(t, BlankReady("T5577", e), "ok")
              \/ ApplyAndReturn(t, notDetected, "reported")
         [] expected_blank = "EM4305" ->
              \/ \E e \in ExistingData : ApplyAndReturn(t, BlankReady("EM4305", e), "ok")
              \/ ApplyAndReturn(t, notDetected, "reported")
         [] expected_blank \in MagicMifareBlanks ->
              \/ ApplyAndReturn(t, notDetected, "reported")
              \/ \E detected_gen \in MagicGeneration \cup {NONE} :
                    /\ Goto(t, "magic_detected", [tasks[t] EXCEPT !.gen = detected_gen])
                    /\ UNCHANGED <<fsmVars, callVars>>
         [] expected_blank = "MagicUltralight" ->
              \/ \E e \in {NONE, "No magic detected"} :
                    ApplyAndReturn(t, BlankReady("MagicUltralight", e), "ok")
              \/ ApplyAndReturn(t, notDetected, "reported")
         [] OTHER ->
              \/ ApplyAndReturn(t, BlankReady("IClassBlank", NONE), "ok")
              \/ ApplyAndReturn(t, notDetected, "reported")
    /\ UNCHANGED hfVars

\* detect_magic_mifare that keeps the blank type the user expected.
detect_magic_mifare_keeping_expected(t) ==
    LET expected_blank == tasks[t].blank IN
    /\ tasks[t].pc = "magic_detected"
    /\ IF tasks[t].gen = NONE
       THEN ApplyAndReturn(t, BlankReady(expected_blank, "No magic detected"), "ok")
       ELSE \E e \in ExistingData : ApplyAndReturn(t, BlankReady(expected_blank, e), "ok")
    /\ UNCHANGED hfVars

\* blank.rs detect_magic_mifare, lines 217-265, after `hf mf info` and
\* check_mifare_data: the match on detected_gen.
detect_magic_mifare(t) ==
    LET expected_blank == tasks[t].blank
        detected_gen == tasks[t].gen
    IN
    /\ tasks[t].pc = "magic_detected"
    /\ CASE detected_gen # NONE /\ <<detected_gen>> = expected_generation(expected_blank) ->
              \E e \in ExistingData : ApplyAndReturn(t, BlankReady(expected_blank, e), "ok")
         [] detected_gen # NONE /\ <<detected_gen>> # expected_generation(expected_blank) ->
              ApplyAndReturn(t, BlankReady(generation_to_blank(detected_gen),
                                           "Detected other generation"), "ok")
         [] OTHER ->
              ApplyAndReturn(t, BlankReady(expected_blank, "No magic detected"), "ok")
    /\ UNCHANGED hfVars

\* cards/types.rs CardType::supports_em4305
supports_em4305(card_type) ==
    card_type \in {"EM4100", "HIDProx", "Indala", "IOProx", "AWID", "FDX_B",
                   "Paradox", "Viking", "Pyramid", "Keri", "NexWatch"}

T5577_TOTAL_STEPS == 6

EM4305_TOTAL_STEPS == 5

UpdateWriteProgress(progress, current_block, total_blocks) ==
    [action |-> "UpdateWriteProgress", progress |-> progress,
     current_block |-> current_block, total_blocks |-> total_blocks]

\* write.rs update_progress(..)? inside a write flow: on Ok the flow goes on
\* to pc with locals upd; on Err the flow returns the error to
\* write_clone_with_data ("flow_err").
update_progress(t, progress, current_block, total_blocks, pc, upd) ==
    LET a == UpdateWriteProgress(progress, current_block, total_blocks) IN
    /\ Apply(a, "ts1")
    /\ UNCHANGED callVars
    /\ Goto(t, IF transition(Machine, a, "ts1").ok THEN pc ELSE "flow_err", upd)

\* write.rs report_error called inside a flow: ReportError is applied and the
\* state read under the same lock; the flow returns Ok(state).
report_error(t, message, recoverable, recovery_action, upd) ==
    /\ Apply(ReportError(message, message, recoverable, recovery_action), "ts1")
    /\ UNCHANGED callVars
    /\ ReturnWith(t, upd, "reported")

\* A device command of a flow failed (`run_command(..).await?`): the flow
\* returns Err and write_clone_with_data applies ReportError; the state is
\* read under a later lock ("read_state").
flow_device_error(t, upd) ==
    /\ Apply(RetryError("PM3 command failed"), "ts1")
    /\ UNCHANGED callVars
    /\ Goto(t, "read_state", upd)

\* The card_type and blank_type arguments given to write_clone_with_data: a
\* type with a clone command and one without; no blank (the recommended one
\* is used), EM4305, and a blank the LF flows do not handle.
WriteCardArgs == {"EM4100", "MifareClassic1K"}

WriteBlankArgs == {NONE, "EM4305", "MagicMifareGen1a"}

\* write.rs write_clone_with_data: argument checks and StartWrite.
\* valid says whether decoded, uid and port pass the checks of lines 43-69.
write_clone_with_data_start(t) ==
    /\ Free(t)
    /\ \E card_type \in WriteCardArgs, blank_type \in WriteBlankArgs, valid \in BOOLEAN :
          LET blank == IF blank_type = NONE THEN recommended_blank(card_type) ELSE blank_type
              r == transition(Machine, [action |-> "StartWrite"], "ts1")
          IN
          IF ~valid \/ (blank = "EM4305" /\ ~supports_em4305(card_type))
          THEN /\ tasks' = [tasks EXCEPT ![t] = IdleTask]
               /\ UNCHANGED <<fsmVars, callVars>>
          ELSE /\ Apply([action |-> "StartWrite"], "ts1")
               /\ UNCHANGED callVars
               /\ tasks' = [tasks EXCEPT ![t] =
                     IF r.ok
                     THEN [Begin(t, "write_clone_with_data",
                                 CASE blank = "T5577" -> "t5577_start"
                                   [] blank = "EM4305" -> "em4305_start"
                                   [] OTHER -> "unsupported_blank")
                             EXCEPT !.blank = blank, !.card_type = card_type]
                     ELSE IdleTask]
    /\ UNCHANGED hfVars

\* write.rs write_clone_with_data, the `_` arm: other blank types.
write_unsupported_blank(t) ==
    /\ tasks[t].pc = "unsupported_blank"
    /\ ApplyAndReturn(t, ReportError("Unsupported blank type for LF cloning",
                                     "Unsupported blank type for LF cloning", FALSE, NONE),
                      "reported")
    /\ UNCHANGED hfVars

\* write.rs write_clone_with_data, Err(e) arms: report_error after a flow
\* returned Err from a rejected transition.
write_flow_err(t) ==
    /\ tasks[t].pc = "flow_err"
    /\ Apply(RetryError("Write failed"), "ts1")
    /\ UNCHANGED callVars
    /\ Goto(t, "read_state", tasks[t])
    /\ UNCHANGED hfVars

\* write.rs write_clone_with_data, Err(e) arms: Ok(m.current.clone()).
write_read_state(t) ==
    /\ tasks[t].pc = "read_state"
    /\ Return(t, "reported")
    /\ UNCHANGED <<fsmVars, callVars, hfVars>>

\* write.rs write flows: the closing Ok(m.current.clone()) after WriteFinished.
write_flow_done(t) ==
    /\ tasks[t].pc = "flow_done"
    /\ Return(t, "ok")
    /\ UNCHANGED <<fsmVars, callVars, hfVars>>

\* command_builder.rs build_clone_command: the card types with a clone arm
\* (all others fall to the `=> None` arms).
has_clone_command(card_type) ==
    frequency(card_type) = "LF" /\ is_cloneable(card_type)

\* write.rs write_t5577_flow, step 1: update_progress(0.1, 0, 6)?
t5577_start(t) ==
    /\ tasks[t].pc = "t5577_start"
    /\ update_progress(t, 10, 0, T5577_TOTAL_STEPS, "t5577_detect", tasks[t])
    /\ UNCHANGED hfVars

\* write.rs write_t5577_flow: `lf t55xx detect` answered, then
\* update_progress(0.2, 1, 6)?
t5577_detect(t) ==
    /\ tasks[t].pc = "t5577_detect"
    /\ \/ flow_device_error(t, tasks[t])
       \/ \E password_set \in BOOLEAN :
             report_error(t, "T5577 not detected on writer", TRUE, "Retry",
                          [tasks[t] EXCEPT !.pw_set = password_set])
       \/ \E password_set \in BOOLEAN :
             update_progress(t, 20, 1, T5577_TOTAL_STEPS, "t5577_password",
                             [tasks[t] EXCEPT !.pw_set = password_set])
    /\ UNCHANGED hfVars

\* output_parser.rs parse_t5577_chk on the Ok output of `lf t55xx chk`, or
\* the failure of the command: what the flow learns about the password.
ChkResults == {"found", "not_found", "error"}

\* write.rs write_t5577_flow, step 2: `lf t55xx chk` when password_set, then
\* update_progress(0.35, 2, 6)?; without a password straight to
\* update_progress(0.7, 4, 6)?
t5577_password(t) ==
    /\ tasks[t].pc = "t5577_password"
    /\ IF tasks[t].pw_set
       THEN \E chk \in ChkResults :
               LET l == [tasks[t] EXCEPT !.chk = chk] IN
               CASE chk = "not_found" ->
                       report_error(t, "Card is password-locked, cannot recover password",
                                    TRUE, "Retry", l)
                 [] chk = "error" -> report_error(t, "Password check failed", TRUE, "Retry", l)
                 [] OTHER -> update_progress(t, 35, 2, T5577_TOTAL_STEPS, "t5577_wipe", l)
       ELSE update_progress(t, 70, 4, T5577_TOTAL_STEPS, "t5577_clone", tasks[t])
    /\ UNCHANGED hfVars

\* write.rs write_t5577_flow, step 3: the wipe with the recovered password
\* was run, then update_progress(0.5, 3, 6)?
t5577_wipe(t) ==
    /\ tasks[t].pc = "t5577_wipe"
    /\ \/ flow_device_error(t, [tasks[t] EXCEPT !.wiped = TRUE])
       \/ update_progress(t, 50, 3, T5577_TOTAL_STEPS, "t5577_verify_wipe",
                          [tasks[t] EXCEPT !.wiped = TRUE])
    /\ UNCHANGED hfVars

\* A wipe verification that only asks whether the chip answers.
wipe_verified_if_detected(detected, password_set) == detected

\* write.rs line 246: `!verify_status.detected || verify_status.password_set`
\* is the failed wipe verification.
wipe_verified(detected, password_set) == detected /\ ~password_set

\* What a T5577Status says, as a word.
status_word(detected, password_set) ==
    IF ~detected THEN "absent" ELSE IF password_set THEN "locked" ELSE "clean"

\* write.rs write_t5577_flow, step 4: the detect after the wipe, then
\* update_progress(0.7, 4, 6)?
t5577_verify_wipe(t) ==
    /\ tasks[t].pc = "t5577_verify_wipe"
    /\ \/ flow_device_error(t, tasks[t])
       \/ \E detected \in BOOLEAN, password_set \in BOOLEAN :
             LET l == [tasks[t] EXCEPT !.reverify = status_word(detected, password_set)] IN
             IF wipe_verified(detected, password_set)
             THEN update_progress(t, 70, 4, T5577_TOTAL_STEPS, "t5577_clone", l)
             ELSE report_error(t, "T5577 wipe verification failed", TRUE, "Retry", l)
    /\ UNCHANGED hfVars

\* write.rs write_t5577_flow, step 5: build_clone_command, the clone command
\* run, then update_progress(1.0, 5, 6)?
t5577_clone(t) ==
    /\ tasks[t].pc = "t5577_clone"
    /\ \/ report_error(t, "No clone command", FALSE, NONE, tasks[t])
       \/ /\ has_clone_command(tasks[t].card_type)
          /\ LET sent == [tasks[t] EXCEPT !.cloned = TRUE] IN
             \/ flow_device_error(t, sent)
             \/ report_error(t, "Clone command may have failed", TRUE, "Retry", sent)
             \/ update_progress(t, 100, 5, T5577_TOTAL_STEPS, "write_finished", sent)
    /\ UNCHANGED hfVars

\* write.rs write flows, last step: m.transition(WriteFinished)?
write_finished(t) ==
    /\ tasks[t].pc = "write_finished"
    /\ Apply([action |-> "WriteFinished"], "ts1")
    /\ UNCHANGED callVars
    /\ Goto(t, IF transition(Machine, [action |-> "WriteFinished"], "ts1").ok
               THEN "flow_done" ELSE "flow_err", tasks[t])
    /\ UNCHANGED hfVars

\* write.rs write_em4305_flow, step 1: update_progress(0.1, 0, 5)?
em4305_start(t) ==
    /\ tasks[t].pc = "em4305_start"
    /\ update_progress(t, 10, 0, EM4305_TOTAL_STEPS, "em4305_info", tasks[t])
    /\ UNCHANGED hfVars

\* write.rs write_em4305_flow: `lf em 4x05 info` answered, then
\* update_progress(0.3, 1, 5)?
em4305_info(t) ==
    /\ tasks[t].pc = "em4305_info"
    /\ \/ flow_device_error(t, tasks[t])
       \/ report_error(t, "EM4305 not detected on writer", TRUE, "Retry", tasks[t])
       \/ update_progress(t, 30, 1, EM4305_TOTAL_STEPS, "em4305_wipe", tasks[t])
    /\ UNCHANGED hfVars

\* write.rs write_em4305_flow, step 2: the wipe was run, then
\* update_progress(0.5, 2, 5)?
em4305_wipe(t) ==
    /\ tasks[t].pc = "em4305_wipe"
    /\ \/ flow_device_error(t, [tasks[t] EXCEPT !.wiped = TRUE])
       \/ update_progress(t, 50, 2, EM4305_TOTAL_STEPS, "em4305_verify_wipe",
                          [tasks[t] EXCEPT !.wiped = TRUE])
    /\ UNCHANGED hfVars

\* write.rs write_em4305_flow, step 3: word 0 read back, then
\* update_progress(0.7, 3, 5)?
em4305_verify_wipe(t) ==
    /\ tasks[t].pc = "em4305_verify_wipe"
    /\ \/ flow_device_error(t, tasks[t])
       \/ report_error(t, "EM4305 wipe verification failed", TRUE, "Retry", tasks[t])
       \/ update_progress(t, 70, 3, EM4305_TOTAL_STEPS, "em4305_clone",
                          [tasks[t] EXCEPT !.reverify = "clean"])
    /\ UNCHANGED hfVars

\* write.rs write_em4305_flow, step 4: build_clone_command, the --em clone
\* run, then update_progress(1.0, 4, 5)?
em4305_clone(t) ==
    /\ tasks[t].pc = "em4305_clone"
    /\ \/ report_error(t, "No clone command", FALSE, NONE, tasks[t])
       \/ /\ has_clone_command(tasks[t].card_type)
          /\ LET sent == [tasks[t] EXCEPT !.cloned = TRUE] IN
             \/ flow_device_error(t, sent)
             \/ report_error(t, "Clone command may have failed", TRUE, "Retry", sent)
             \/ update_progress(t, 100, 4, EM4305_TOTAL_STEPS, "write_finished", sent)
    /\ UNCHANGED hfVars

\* The longest output of a streaming subprocess, in lines.
MaxLines == 1

\* The file the device writes when it dumps the card with this uid: the
\* name carries the uid (connection.rs: "hf-mf-01020304-dump.bin"). The
\* card on the reader is the card identified when the command began.
dump_file_of(uid) == "hf-" \o uid \o "-dump.bin"

\* Paths output_parser can extract from a dump line.
DumpFiles == {dump_file_of(uid) : uid \in CardDataSet}

\* Applies a and moves on: the frontend gets Ok(state) when a was accepted,
\* the InvalidTransition error otherwise.
StartHf(t, cmd, pc) ==
    /\ Apply([action |-> "StartHfProcess"], "ts1")
    /\ UNCHANGED callVars
    /\ tasks' = [tasks EXCEPT ![t] =
          IF transition(Machine, [action |-> "StartHfProcess"], "ts1").ok
          THEN [Begin(t, cmd, pc) EXCEPT !.card_type = current.card_type,
                                          !.uid = current.card_data]
          ELSE IdleTask]

Rejected(t) ==
    /\ tasks' = [tasks EXCEPT ![t] = IdleTask]
    /\ UNCHANGED <<fsmVars, callVars>>

\* hf_clone.rs hf_autopwn, the first critical section: the state guard and
\* StartHfProcess.
hf_autopwn_start(t) ==
    /\ Free(t)
    /\ IF /\ current.step = "CardIdentified"
          /\ current.card_type \in {"MifareClassic1K", "MifareClassic4K"}
          /\ port # NoPort
       THEN StartHf(t, "hf_autopwn", "streaming_spawn")
       ELSE Rejected(t)
    /\ UNCHANGED hfVars

\* connection.rs run_command_streaming up to the read loop: the port and
\* command checks, spawn_pm3, and `*lock = Some(child)`. When the checks or
\* the spawn fail, hf_autopwn's Err arm applies ReportError.
run_command_streaming_spawn(t) ==
    /\ tasks[t].pc = "streaming_spawn"
    /\ \/ /\ port # NoPort
          /\ run_command_streaming_accepts(port[1], build_hf_autopwn(tasks[t].card_type))
          /\ child' = Some(t)
          /\ Goto(t, "streaming_read", [tasks[t] EXCEPT !.proc = "running"])
          /\ UNCHANGED <<fsmVars, callVars, dump_path>>
       \/ /\ ApplyAndReturn(t, RetryError("Key recovery failed"), "reported")
          /\ UNCHANGED hfVars

\* hf_clone.rs hf_autopwn, the on_line closure, on one parsed output line.
on_line(l, event) ==
    LET file == IF event.file_path # "" THEN event.file_path ELSE l.dump_file IN
    CASE event.kind = "KeyFound" -> [l EXCEPT !.keys_found = @ + 1]
      [] event.kind = "DictionaryProgress" -> [l EXCEPT !.keys_found = 1]
      [] event.kind = "DumpComplete" -> [l EXCEPT !.dump_complete = TRUE, !.dump_file = file]
      [] event.kind = "DumpPartial" -> [l EXCEPT !.dump_partial = TRUE, !.dump_file = file]
      [] OTHER -> l

\* cards/types.rs AutopwnEvent, as output_parser::parse_autopwn_line returns
\* it while the card with this uid is on the reader.
AutopwnEvents(uid) ==
    {[kind |-> "KeyFound", file_path |-> ""], [kind |-> "DumpPartial", file_path |-> ""],
     [kind |-> "DumpComplete", file_path |-> dump_file_of(uid)]}

\* connection.rs read_stream_with_timeout: one Stdout/Stderr event received
\* and handed to on_line.
read_stream_line(t) ==
    /\ tasks[t].pc = "streaming_read"
    /\ tasks[t].lines < MaxLines
    /\ \E event \in AutopwnEvents(tasks[t].uid) :
          Goto(t, "streaming_read", [on_line(tasks[t], event) EXCEPT !.lines = @ + 1])
    /\ UNCHANGED <<fsmVars, callVars, hfVars>>

\* payload.code of a Terminated event, an Option<i32>: <<>> is None (the
\* process was ended by a signal), <<c>> is Some(c).
ExitCodes == {<<>>, <<0>>, <<1>>, <<-5>>, <<251>>}

\* connection.rs read_stream_with_timeout, lines 407-414: the result for an exit code.
exit_result(code) ==
    CASE code \in {<<>>, <<0>>} -> "Ok"
      [] code \in {<<-5>>, <<251>>} -> "Timeout"
      [] OTHER -> "CommandFailed"

\* A clean-up that keeps the handle when the stream ended in an error.
child_after_stream_kept_on_error(result, slot) ==
    IF result = "Ok" THEN NoChild ELSE slot

\* connection.rs lines 289-292: `*lock = None` whatever the result.
child_after_stream(result, slot) == NoChild

\* connection.rs run_command_streaming, the end of the read loop (timeout,
\* channel closed, Error event or Terminated) followed by `*lock = None`.
\* A killed process ends by signal (no code) or with a non-zero code,
\* depending on the platform.
read_stream_end(t) ==
    /\ tasks[t].pc = "streaming_read"
    /\ \E result \in IF tasks[t].proc = "killed"
                     THEN {exit_result(<<>>), exit_result(<<1>>)}
                     ELSE {exit_result(c) : c \in ExitCodes} \cup {"Timeout", "CommandFailed", "Ok"} :
          /\ Goto(t, "streaming_done", [tasks[t] EXCEPT !.result = result])
          /\ child' = child_after_stream(result, child)
    /\ UNCHANGED <<fsmVars, callVars, dump_path>>

\* hf_clone.rs hf_autopwn, lines 167-181
autopwn_dump_info(l) ==
    IF l.dump_complete THEN "All keys recovered. Full dump saved."
    ELSE IF l.dump_partial THEN "Partial key recovery. Partial dump saved."
    ELSE IF l.keys_found > 0 THEN "Keys recovered."
    ELSE "Key recovery completed."

HfProcessComplete(dump_info) == [action |-> "HfProcessComplete", dump_info |-> dump_info]

\* hf_clone.rs hf_autopwn after run_command_streaming returned: on Ok the
\* dump path is stored (its own lock) before HfProcessComplete; on Err
\* ReportError is applied.
hf_autopwn_result(t) ==
    /\ tasks[t].pc = "streaming_done"
    /\ IF tasks[t].result = "Ok"
       THEN IF tasks[t].dump_file # NONE
            THEN /\ dump_path' = tasks[t].dump_file
                 /\ Goto(t, "hf_complete", tasks[t])
                 /\ UNCHANGED <<fsmVars, callVars, child>>
            ELSE /\ ApplyAndReturn(t, HfProcessComplete(autopwn_dump_info(tasks[t])), "ok")
                 /\ UNCHANGED hfVars
       ELSE /\ ApplyAndReturn(t, RetryError("Key recovery failed"), "reported")
            /\ UNCHANGED hfVars

\* hf_clone.rs hf_autopwn, lines 183-188: HfProcessComplete after the dump
\* path was stored.
hf_autopwn_complete(t) ==
    /\ tasks[t].pc = "hf_complete"
    /\ tasks[t].cmd = "hf_autopwn"
    /\ ApplyAndReturn(t, HfProcessComplete(autopwn_dump_info(tasks[t])), "ok")
    /\ UNCHANGED hfVars

\* hf_clone.rs cancel_hf_operation: take the handle out of the slot and kill
\* the process it names.
cancel_hf_operation ==
    /\ child' = NoChild
    /\ IF child # NoChild
       THEN tasks' = [tasks EXCEPT ![child[1]] = [@ EXCEPT !.proc = "killed"]]
       ELSE UNCHANGED tasks
    /\ UNCHANGED <<fsmVars, callVars, dump_path>>

\* hf_clone.rs hf_dump, the first critical section: the state guard and
\* StartHfProcess.
hf_dump_start(t) ==
    /\ Free(t)
    /\ IF /\ current.step = "CardIdentified"
          /\ current.card_type \in {"MifareUltralight", "NTAG", "IClass"}
          /\ port # NoPort
       THEN StartHf(t, "hf_dump", "hf_dumping")
       ELSE Rejected(t)
    /\ UNCHANGED hfVars

\* hf_clone.rs hf_dump, lines 391-395
hf_dump_info(card_type) ==
    CASE card_type = "IClass" -> "iCLASS dump complete."
      [] card_type = "NTAG" -> "NTAG dump complete."
      [] OTHER -> "Ultralight dump complete."

\* hf_clone.rs hf_dump after run_command returned: on Ok the dump path is
\* stored when the output names one, then HfProcessComplete is applied; on
\* Err ReportError is applied.
hf_dump_result(t) ==
    /\ tasks[t].pc = "hf_dumping"
    /\ \/ /\ dump_path' = dump_file_of(tasks[t].uid)
          /\ Goto(t, "hf_complete", tasks[t])
          /\ UNCHANGED <<fsmVars, callVars, child>>
       \/ /\ ApplyAndReturn(t, HfProcessComplete(hf_dump_info(tasks[t].card_type)), "ok")
          /\ UNCHANGED hfVars
       \/ /\ ApplyAndReturn(t, RetryError("Dump failed"), "reported")
          /\ UNCHANGED hfVars

\* hf_clone.rs hf_dump, lines 397-401: HfProcessComplete after the dump path
\* was stored.
hf_dump_complete(t) ==
    /\ tasks[t].pc = "hf_complete"
    /\ tasks[t].cmd = "hf_dump"
    /\ ApplyAndReturn(t, HfProcessComplete(hf_dump_info(tasks[t].card_type)), "ok")
    /\ UNCHANGED hfVars

\* The blank_type arguments given to hf_write_clone: a one-command workflow
\* (Gen1a), a four-command workflow (Gen2) and a type without HF workflow.
HfBlankArgs == {"MagicMifareGen1a", "MagicMifareGen2", "T5577"}

\* command_builder.rs build_mf_cload, build_mf_gen2_config_force,
\* build_mf_wrbl0, build_mf_restore and build_mf_gen2_config_reset, with the
\* dump path and the block data left as the format's placeholders.
build_mf_cload == "hf mf cload -f {}"

build_mf_gen2_config_force == "hf 14a config --atqa force --bcc ignore --cl2 skip --rats skip"

build_mf_wrbl0 == "hf mf wrbl --blk 0 -k FFFFFFFFFFFF -d {} --force"

build_mf_restore == "hf mf restore -f {}"

build_mf_gen2_config_reset == "hf 14a config --std"

\* hf_clone.rs write_gen1a / write_gen2: the (progress, step, total) of each
\* update_write_progress of the workflow and the command that follows it,
\* in order.
hf_write_steps(blank) ==
    CASE blank = "MagicMifareGen1a" -> << <<30, 1, 2, build_mf_cload>> >>
      [] blank = "MagicMifareGen2" ->
            << <<10, 1, 5, build_mf_gen2_config_force>>, <<30, 2, 5, build_mf_wrbl0>>,
               <<60, 3, 5, build_mf_restore>>, <<85, 4, 5, build_mf_gen2_config_reset>> >>
      [] OTHER -> << >>

\* The invocation in slot t applies a and returns, the commands it has sent
\* to the device kept for the caller's log.
ApplyAndReturnSent(t, a, okOut, sent) ==
    /\ Apply(a, "ts1")
    /\ UNCHANGED callVars
    /\ ReturnWith(t, [IdleTask EXCEPT !.cmd = tasks[t].cmd, !.sent = sent],
                  IF transition(Machine, a, "ts1").ok THEN okOut ELSE "invalid_transition")

\* hf_clone.rs hf_write_clone, the first critical section: the state guard
\* and StartWrite.
hf_write_clone_start(t) ==
    /\ Free(t)
    /\ IF current.step = "BlankDetected" /\ port # NoPort
       THEN \E blank_type \in HfBlankArgs :
               /\ Apply([action |-> "StartWrite"], "ts1")
               /\ UNCHANGED callVars
               /\ tasks' = [tasks EXCEPT ![t] =
                     [Begin(t, "hf_write_clone", "hf_get_dump") EXCEPT !.blank = blank_type]]
       ELSE Rejected(t)
    /\ UNCHANGED hfVars

\* hf_clone.rs hf_write_clone, lines 271-278: the dump path is read; without
\* one the command returns Err and applies nothing. Lines 281-309 choose the
\* workflow; an unsupported blank type is an Err for report_error.
hf_write_get_dump(t) ==
    /\ tasks[t].pc = "hf_get_dump"
    /\ IF dump_path = NONE
       THEN Return(t, "precondition")
       ELSE Goto(t, IF hf_write_steps(tasks[t].blank) = << >> THEN "hf_report" ELSE "hf_write",
                 [tasks[t] EXCEPT !.step = 1])
    /\ UNCHANGED <<fsmVars, callVars, hfVars>>

\* hf_clone.rs update_write_progress(..)? at the head of a workflow step.
hf_write_progress(t) ==
    LET s == hf_write_steps(tasks[t].blank)[tasks[t].step]
        a == UpdateWriteProgress(s[1], s[2], s[3])
    IN
    /\ tasks[t].pc = "hf_write"
    /\ Apply(a, "ts1")
    /\ UNCHANGED callVars
    /\ Goto(t, IF transition(Machine, a, "ts1").ok THEN "hf_write_io" ELSE "hf_report", tasks[t])
    /\ UNCHANGED hfVars

\* hf_clone.rs workflow step: the command of the step is sent and the
\* device command returns. An unreadable dump (read_block0_from_dump, before
\* the block-0 write is sent), a failed command or a `[!!]` line is an Err
\* for report_error; after the last command finish_write begins with
\* update_write_progress(1.0, None, None)?
hf_write_io(t) ==
    LET command == hf_write_steps(tasks[t].blank)[tasks[t].step][4]
        final == tasks[t].step = Len(hf_write_steps(tasks[t].blank))
        sent == Append(tasks[t].sent, command)
        a == UpdateWriteProgress(100, NONE, NONE)
    IN
    /\ tasks[t].pc = "hf_write_io"
    /\ \/ /\ command = build_mf_wrbl0
          /\ ApplyAndReturnSent(t, RetryError("Write failed"), "reported", tasks[t].sent)
       \/ ApplyAndReturnSent(t, RetryError("Write failed"), "reported", sent)
       \/ /\ ~final
          /\ Goto(t, "hf_write", [tasks[t] EXCEPT !.step = @ + 1, !.sent = sent])
          /\ UNCHANGED <<fsmVars, callVars>>
       \/ /\ final
          /\ Apply(a, "ts1")
          /\ UNCHANGED callVars
          /\ Goto(t, IF transition(Machine, a, "ts1").ok THEN "hf_finish" ELSE "hf_report",
                  [tasks[t] EXCEPT !.sent = sent])
    /\ UNCHANGED hfVars

\* hf_clone.rs finish_write: m.transition(WriteFinished)? and the state read
\* under the same lock.
hf_write_finish(t) ==
    /\ tasks[t].pc = "hf_finish"
    /\ IF transition(Machine, [action |-> "WriteFinished"], "ts1").ok
       THEN ApplyAndReturnSent(t, [action |-> "WriteFinished"], "ok", tasks[t].sent)
       ELSE /\ Apply([action |-> "WriteFinished"], "ts1")
            /\ UNCHANGED callVars
            /\ Goto(t, "hf_report", tasks[t])
    /\ UNCHANGED hfVars

\* hf_clone.rs hf_write_clone, lines 311-322: report_error for a workflow Err.
hf_write_report(t) ==
    /\ tasks[t].pc = "hf_report"
    /\ ApplyAndReturnSent(t, RetryError("Write failed"), "reported", tasks[t].sent)
    /\ UNCHANGED hfVars

VerificationResult(success, mismatched_blocks) ==
    [action |-> "VerificationResult", success |-> success,
     mismatched_blocks |-> mismatched_blocks]

\* output_parser.rs verify_match(source_uid, clone_output), as the pair
\* (success, mismatched); scanned is parse_lf_search(clone_output).
verify_match(source_uid, scanned) ==
    IF scanned # <<>> /\ eq_ignore_ascii_case(scanned[1].uid, source_uid)
    THEN <<TRUE, <<>>>>
    ELSE <<FALSE, <<0>>>>

\* verify_match_detailed that leaves a differing raw out of the list.
verify_match_detailed_without_raw(source_type, source_decoded, scanned) ==
    IF scanned = <<>> \/ scanned[1].card_type # source_type THEN <<FALSE, <<0>>>>
    ELSE LET src(k) == get(source_decoded, k)
             dst(k) == get(scanned[1].decoded, k)
             both(k) == src(k) # <<>> /\ dst(k) # <<>>
             neither(k) == src(k) = <<>> /\ dst(k) = <<>>
             fc_match == IF both("facility_code") THEN src("facility_code") = dst("facility_code")
                         ELSE neither("facility_code")
             cn_match == IF both("card_number") THEN src("card_number") = dst("card_number")
                         ELSE neither("card_number")
             raw_match == IF both("raw") THEN eq_ignore_ascii_case(src("raw")[1], dst("raw")[1])
                          ELSE TRUE
             id_match == IF both("id") THEN eq_ignore_ascii_case(src("id")[1], dst("id")[1])
                         ELSE neither("id")
         IN
         IF fc_match /\ cn_match /\ raw_match /\ id_match THEN <<TRUE, <<>>>>
         ELSE <<FALSE, (IF ~fc_match THEN <<1>> ELSE <<>>) \o (IF ~cn_match THEN <<2>> ELSE <<>>)
                       \o (IF ~id_match THEN <<3>> ELSE <<>>)>>

\* output_parser.rs verify_match_detailed(source_type, source_decoded,
\* clone_output), as the pair (success, mismatched); scanned is
\* parse_lf_search(clone_output).
verify_match_detailed(source_type, source_decoded, scanned) ==
    IF scanned = <<>> \/ scanned[1].card_type # source_type THEN <<FALSE, <<0>>>>
    ELSE LET src(k) == get(source_decoded, k)
             dst(k) == get(scanned[1].decoded, k)
             both(k) == src(k) # <<>> /\ dst(k) # <<>>
             neither(k) == src(k) = <<>> /\ dst(k) = <<>>
             fc_match == IF both("facility_code") THEN src("facility_code") = dst("facility_code")
                         ELSE neither("facility_code")
             cn_match == IF both("card_number") THEN src("card_number") = dst("card_number")
                         ELSE neither("card_number")
             raw_match == IF both("raw") THEN eq_ignore_ascii_case(src("raw")[1], dst("raw")[1])
                          ELSE TRUE
             id_match == IF both("id") THEN eq_ignore_ascii_case(src("id")[1], dst("id")[1])
                         ELSE neither("id")
         IN
         IF fc_match /\ cn_match /\ raw_match /\ id_match THEN <<TRUE, <<>>>>
         ELSE <<FALSE, (IF ~fc_match THEN <<1>> ELSE <<>>) \o (IF ~cn_match THEN <<2>> ELSE <<>>)
                       \o (IF ~raw_match THEN <<0>> ELSE <<>>)
                       \o (IF ~id_match THEN <<3>> ELSE <<>>)>>

\* The fields verification compares, and the texts drawn for them: two that
\* differ in case only and one that differs.
VerifyKeys == {"facility_code", "card_number", "raw", "id"}

VerifyValues == {<<"a">>, <<"A">>, <<"b">>}

\* The decoded maps of the source card given to verify_clone.
SourceDecoded ==
    {[k \in K |-> <<"a">>] : K \in {{}, {"facility_code", "card_number"}, {"raw"}, {"id", "raw"},
                                     VerifyKeys}}

\* What parse_lf_search makes of the `lf search` output of verification: no
\* card, or a card of the source's type or of another one.
ScannedClones ==
    {<<>>} \cup {<<[card_type |-> card_type, uid |-> uid, decoded |-> decoded]>> :
                    card_type \in {"EM4100", "Hitag"}, uid \in {<<"a">>, <<"A">>},
                    decoded \in UNION {[K -> VerifyValues] : K \in SUBSET VerifyKeys}}

\* write.rs verify_clone, lines 472-476: verify_match_detailed when the
\* source's decoded fields were given, verify_match if not. The source is an
\* EM4100 card with uid "a".
VerifyOutcomes ==
    {verify_match(<<"a">>, scanned) : scanned \in ScannedClones}
    \cup {verify_match_detailed("EM4100", decoded, scanned) :
               decoded \in SourceDecoded, scanned \in ScannedClones}

\* The most blocks of a dump file.
MaxBlocks == 2

\* The contents of a dump file, block by block.
DumpData == UNION {[1..n -> {0, 1}] : n \in 0..MaxBlocks}

\* hf_clone.rs compare_dump_files: the indices of the blocks that differ, of
\* those both files hold; a file that cannot be read is <<>> as data.
compare_dump_files(orig_data, readback_data) ==
    IF orig_data = <<>> \/ readback_data = <<>> THEN <<>>
    ELSE LET blocks == IF Len(orig_data) <= Len(readback_data) THEN Len(orig_data)
                       ELSE Len(readback_data)
         IN SelectSeq([i \in 1..blocks |-> i - 1],
                      LAMBDA i : orig_data[i + 1] # readback_data[i + 1])

\* hf_clone.rs verify_readback: nothing when the readback command failed or
\* a dump file is missing, [0] for a `[!!]` line, else the comparison.
ReadbackOutcomes ==
    {<<>>, <<0>>}
    \cup (IF dump_path = NONE THEN {}
          ELSE {compare_dump_files(orig, readback) : orig \in DumpData, readback \in DumpData})

\* write.rs verify_clone, the guard: the state is read and nothing applied.
verify_clone_start(t) ==
    /\ Free(t)
    /\ tasks' = [tasks EXCEPT ![t] =
          IF current.step = "Verifying"
          THEN Begin(t, "verify_clone", "verifying")
          ELSE IdleTask]
    /\ UNCHANGED <<fsmVars, callVars, hfVars>>

\* write.rs verify_clone after `lf search`: a failed command returns Err and
\* applies nothing; otherwise VerificationResult is applied.
verify_clone_result(t) ==
    /\ tasks[t].pc = "verifying"
    /\ \/ /\ Return(t, "device_error")
          /\ UNCHANGED <<fsmVars, callVars>>
       \/ \E r \in VerifyOutcomes : ApplyAndReturn(t, VerificationResult(r[1], r[2]), "ok")
    /\ UNCHANGED hfVars

\* hf_clone.rs hf_verify_clone, the guard: the state and the port are read
\* and nothing applied.
hf_verify_clone_start(t) ==
    /\ Free(t)
    /\ tasks' = [tasks EXCEPT ![t] =
          IF current.step = "Verifying" /\ port # NoPort
          THEN Begin(t, "hf_verify_clone", "hf_verifying")
          ELSE IdleTask]
    /\ UNCHANGED <<fsmVars, callVars, hfVars>>

\* hf_clone.rs hf_verify_clone after `hf search` and the readback: a failed
\* search or a UID mismatch is VerificationResult(false, [0]); otherwise
\* success is mismatched_blocks.is_empty() of the readback.
hf_verify_clone_result(t) ==
    /\ tasks[t].pc = "hf_verifying"
    /\ \/ ApplyAndReturn(t, VerificationResult(FALSE, <<0>>), "ok")
       \/ \E mismatched_blocks \in ReadbackOutcomes :
             ApplyAndReturn(t, VerificationResult(mismatched_blocks = <<>>, mismatched_blocks),
                            "ok")
    /\ UNCHANGED hfVars

-----------------------------------------------------------------------------
(* The calls into pm3/connection.rs and pm3/command_builder.rs that are    *)
(* examined on their own: the arguments and the position of each. A call   *)
(* of transition examined on its own is recorded in returned, and the      *)
(* device of the last accepted DeviceFound in found (<<>> before any).     *)

\* No run_command / run_command_streaming call in progress.
NoCall ==
    [mode |-> "none", port |-> <<>>, cmd |-> <<>>, pc |-> "idle", attempts |-> 0,
     executed |-> 0, scope |-> 0, result |-> "none", running |-> 0, elapsed |-> 0,
     produced |-> <<>>, delivered |-> <<>>, accumulated |-> <<>>]

\* No build_clone_command call in progress.
NotBuilt ==
    [pc |-> "idle", card_type |-> NONE, uid |-> <<>>, decoded |-> <<>>, result |-> <<>>]

\* No strip_ansi or parse_lf_search call in progress.
NotParsed == [pc |-> "idle"]

-----------------------------------------------------------------------------
(* SpecFsm: the WizardMachine alone, driven by any sequence of actions.    *)

InitFsm ==
    /\ MachineNew
    /\ last = NONE
    /\ since = NoStage
    /\ returned = [action |-> NONE, from |-> NONE, ok |-> TRUE, err |-> NONE]
    /\ found = <<>>
    /\ HfOperationStateNew
    /\ tasks = [t \in Tasks |-> IdleTask]
    /\ run = NoCall
    /\ built = NotBuilt
    /\ parsed = NotParsed

\* machine.transition(a) for any WizardAction a.
NextFsm ==
    /\ \E a \in WizardAction : \E now \in Clock(a) :
          /\ Apply(a, now)
          /\ returned' = [action |-> action_name(a), from |-> state_name(current),
                          ok |-> transition(Machine, a, now).ok,
                          err |-> transition(Machine, a, now).err]
          /\ found' = IF action_name(a) = "DeviceFound" /\ transition(Machine, a, now).ok
                      THEN <<a.port, a.model, a.firmware>>
                      ELSE found
    /\ UNCHANGED <<child, dump_path, tasks, run, built, parsed>>

SpecFsm == InitFsm /\ [][NextFsm]_vars

-----------------------------------------------------------------------------
(* SpecFrontend: a client that calls no command but wizard_action, with any *)
(* UserAction, on a fresh machine.                                          *)

\* wizard.rs wizard_action(action, machine): into_wizard_action and one
\* transition under the lock; arg is the UserAction the client passed and
\* ok, err the Result it got back.
wizard_action_call ==
    /\ \E a \in UserAction : \E now \in Clock(a) :
          /\ Apply(a, now)
          /\ returned' = [action |-> action_name(a), from |-> state_name(current),
                          ok |-> transition(Machine, a, now).ok,
                          err |-> transition(Machine, a, now).err,
                          arg |-> a]
    /\ UNCHANGED <<found, child, dump_path, tasks, run, built, parsed>>

NextFrontend == wizard_action_call

SpecFrontend == InitFsm /\ [][NextFrontend]_vars

-----------------------------------------------------------------------------
(* Spec: the tauri commands of lib.rs running against one WizardMachine and *)
(* one HfOperationState, the frontend free to invoke any command at any     *)
(* time.                                                                    *)

Init ==
    /\ MachineNew
    /\ last = NONE
    /\ since = NoStage
    /\ returned = [action |-> NONE, from |-> NONE, ok |-> TRUE, err |-> NONE]
    /\ found = <<>>
    /\ HfOperationStateNew
    /\ tasks = [t \in Tasks |-> IdleTask]
    /\ run = NoCall
    /\ built = NotBuilt
    /\ parsed = NotParsed

detect_device(S) == \E t \in S : detect_device_start(t) \/ detect_device_finish(t)

scan_card(S) == \E t \in S : scan_card_start(t) \/ scan_card_finish(t)

detect_blank(S) ==
    \E t \in S : detect_blank_start(t) \/ detect_blank_finish(t) \/ detect_magic_mifare(t)

write_clone_with_data(S) ==
    \E t \in S :
        \/ write_clone_with_data_start(t)
        \/ write_unsupported_blank(t)
        \/ write_flow_err(t)
        \/ write_read_state(t)
        \/ write_flow_done(t)
        \/ write_finished(t)

write_t5577_flow(S) ==
    \E t \in S :
        \/ t5577_start(t)
        \/ t5577_detect(t)
        \/ t5577_password(t)
        \/ t5577_wipe(t)
        \/ t5577_verify_wipe(t)
        \/ t5577_clone(t)

write_em4305_flow(S) ==
    \E t \in S :
        \/ em4305_start(t)
        \/ em4305_info(t)
        \/ em4305_wipe(t)
        \/ em4305_verify_wipe(t)
        \/ em4305_clone(t)

verify_clone(S) == \E t \in S : verify_clone_start(t) \/ verify_clone_result(t)

hf_autopwn(S) ==
    \E t \in S :
        \/ hf_autopwn_start(t)
        \/ hf_autopwn_result(t)
        \/ hf_autopwn_complete(t)

run_command_streaming(S) ==
    \E t \in S :
        \/ run_command_streaming_spawn(t)
        \/ read_stream_line(t)
        \/ read_stream_end(t)

hf_dump(S) == \E t \in S : hf_dump_start(t) \/ hf_dump_result(t) \/ hf_dump_complete(t)

hf_write_clone(S) ==
    \E t \in S :
        \/ hf_write_clone_start(t)
        \/ hf_write_get_dump(t)
        \/ hf_write_progress(t)
        \/ hf_write_io(t)
        \/ hf_write_finish(t)
        \/ hf_write_report(t)

hf_verify_clone(S) == \E t \in S : hf_verify_clone_start(t) \/ hf_verify_clone_result(t)

respond_to_frontend == \E t \in Tasks : respond(t)

\* The frontend awaits each command before it invokes the next; the wizard
\* buttons (wizard_action) and the cancel button stay live meanwhile.
Sequential == {1}

Next ==
    \/ wizard_action(UserAction)
    \/ respond_to_frontend
    \/ detect_device(Sequential)
    \/ scan_card(Sequential)
    \/ detect_blank(Sequential)
    \/ write_clone_with_data(Sequential)
    \/ write_t5577_flow(Sequential)
    \/ write_em4305_flow(Sequential)
    \/ verify_clone(Sequential)
    \/ hf_autopwn(Sequential)
    \/ run_command_streaming(Sequential)
    \/ cancel_hf_operation
    \/ hf_dump(Sequential)
    \/ hf_write_clone(Sequential)
    \/ hf_verify_clone(Sequential)

Spec == Init /\ [][Next]_vars

-----------------------------------------------------------------------------
(* SpecHf: the commands that lead to and run the streaming key recovery,   *)
(* a second invocation free to start while the first is still in flight.   *)

\* The wizard buttons within reach while a card is identified or being
\* processed.
HfUserAction ==
    {a \in UserAction :
        \/ a.action \in {"Reset", "Retry", "BackToScan", "SoftReset"}
        \/ a.action = "LoadSavedCard" /\ a.card_type = "MifareClassic1K" /\ a.cloneable}

NextHf ==
    \/ wizard_action(HfUserAction)
    \/ respond_to_frontend
    \/ detect_device(Sequential)
    \/ scan_card(Sequential)
    \/ hf_autopwn(Tasks)
    \/ run_command_streaming(Tasks)
    \/ cancel_hf_operation

SpecHf == Init /\ [][NextHf]_vars

-----------------------------------------------------------------------------
(* SpecRace: the commands that start device work, each free to be invoked  *)
(* again while an earlier invocation is still in flight.                   *)

\* The wizard buttons that lead from one command to the next, and Retry
\* after a reported error.
RaceUserAction ==
    {a \in UserAction :
        \/ a.action = "Retry"
        \/ /\ a.action = "LoadSavedCard"
           /\ a.card_type \in {"MifareClassic1K", "NTAG", "EM4100"}
           /\ a.uid = "A1B2C3D4"
           /\ a.cloneable
        \/ a.action = "ProceedToWrite" /\ a.blank_type \in {"T5577", "MagicMifareGen1a"}}

\* write_clone_with_data without its arm for a transition rejected in
\* mid-flow: with these buttons nothing but the flow itself moves the
\* machine while it writes.
write_clone_with_data_undisturbed(S) ==
    \E t \in S :
        \/ write_clone_with_data_start(t)
        \/ write_unsupported_blank(t)
        \/ write_read_state(t)
        \/ write_flow_done(t)
        \/ write_finished(t)

NextRace ==
    \/ wizard_action(RaceUserAction)
    \/ respond_to_frontend
    \/ detect_device(Tasks)
    \/ scan_card(Tasks)
    \/ detect_blank(Sequential)
    \/ hf_autopwn(Tasks)
    \/ run_command_streaming(Tasks)
    \/ hf_dump(Tasks)
    \/ write_clone_with_data_undisturbed(Tasks)
    \/ write_t5577_flow(Tasks)
    \/ write_em4305_flow(Tasks)
    \/ hf_write_clone(Tasks)

SpecRace == Init /\ [][NextRace]_vars

-----------------------------------------------------------------------------
(* SpecRunner: pm3/connection.rs run_command and run_command_streaming,    *)
(* called with any port and any command string.                            *)

\* The longest text a port input carries after its prefix.
MaxTail == 2

\* Port arguments: the prefixes of the three platforms, or none, followed
\* by digits, a letter, the separator or a line break.
PortInputs ==
    {pre \o tl : pre \in {COM, TTY_ACM, TTY_USB, TTY_USBMODEM, <<>>},
                 tl \in UNION {[1..n -> {"0", "3", "a", ";", "\n", "\r"}] : n \in 0..MaxTail}}

\* Command arguments: "hw version" (the probe of connection::detect_device)
\* and the key-recovery command, and texts that carry a second command or a
\* line break.
CmdInputs ==
    LET hw_version == <<"h", "w", " ", "v", "e", "r", "s", "i", "o", "n">> IN
    {hw_version, build_hf_autopwn("MifareClassic1K"),
     hw_version \o <<";">> \o hw_version,
     hw_version \o <<"\n">>, <<"\r">> \o hw_version}

\* connection.rs pm3_scope_names (the Linux list; each platform has three).
pm3_scope_names == <<"proxmark3", "proxmark3-linux-local", "proxmark3-linux-usr">>

\* A caller invokes run_command(app, port, cmd).
run_command_call ==
    /\ run.pc = "idle"
    /\ \E p \in PortInputs, cmd \in CmdInputs :
          run' = [NoCall EXCEPT !.mode = "one_shot", !.port = p, !.cmd = cmd,
                                !.pc = "execute_pm3"]
    /\ UNCHANGED <<fsmVars, hfVars, tasks, built, returned, found, parsed>>

\* connection.rs execute_pm3, lines 77-99: the port and command checks.
execute_pm3 ==
    /\ run.pc = "execute_pm3"
    /\ run' = IF execute_pm3_accepts(run.port, run.cmd)
              THEN [run EXCEPT !.pc = "sidecar"]
              ELSE [run EXCEPT !.pc = "returned", !.result = "CommandFailed"]
    /\ UNCHANGED <<fsmVars, hfVars, tasks, built, returned, found, parsed>>

\* connection.rs try_sidecar_silent, called at line 103: without a bundled
\* binary nothing is spawned; with one, output() fails to spawn it, or it
\* runs the command and times out or ends with an exit code (None read as
\* -1). Only Ok(output), the exit code 0, ends execute_pm3; on every Err it
\* goes on to the scope names. executed counts the candidates that were
\* spawned and ran the command, running the subprocesses of the call that
\* have not ended: when the timeout drops the output() future no kill is
\* sent, and the subprocess is left to the shell plugin (left = 1: it runs on).
try_sidecar_silent ==
    /\ run.pc = "sidecar"
    /\ \/ run' = [run EXCEPT !.pc = "scopes", !.scope = 1]
       \/ run' = [run EXCEPT !.pc = "scopes", !.scope = 1, !.attempts = @ + 1]
       \/ \E left \in {0, 1} :
             run' = [run EXCEPT !.pc = "scopes", !.scope = 1, !.attempts = @ + 1,
                                !.executed = @ + 1, !.running = @ + left]
       \/ \E code \in {<<>>, <<0>>, <<1>>, <<-5>>, <<251>>} :
             run' = IF code = <<0>>
                    THEN [run EXCEPT !.pc = "returned", !.result = "Ok", !.attempts = @ + 1,
                                     !.executed = @ + 1]
                    ELSE [run EXCEPT !.pc = "scopes", !.scope = 1, !.attempts = @ + 1,
                                     !.executed = @ + 1]
    /\ UNCHANGED <<fsmVars, hfVars, tasks, built, returned, found, parsed>>

\* connection.rs execute_pm3, lines 108-179: one round of the scope loop.
\* The output() call times out, fails to spawn, or ends with an exit code
\* (None read as -1).
execute_pm3_scope ==
    /\ run.pc = "scopes"
    /\ \/ \E left \in {0, 1} :
             run' = [run EXCEPT !.pc = "returned", !.result = "Timeout", !.attempts = @ + 1,
                                !.executed = @ + 1, !.running = @ + left]
       \/ run' = IF run.scope < Len(pm3_scope_names)
                 THEN [run EXCEPT !.scope = @ + 1, !.attempts = @ + 1]
                 ELSE [run EXCEPT !.pc = "returned", !.result = "CommandFailed",
                                  !.attempts = @ + 1]
       \/ \E code \in {<<>>, <<0>>, <<1>>, <<-5>>, <<251>>} :
             run' = [run EXCEPT !.pc = "returned", !.attempts = @ + 1,
                                !.executed = @ + 1,
                                !.result = CASE code = <<0>> -> "Ok"
                                             [] code \in {<<-5>>, <<251>>} -> "Timeout"
                                             [] OTHER -> "CommandFailed"]
    /\ UNCHANGED <<fsmVars, hfVars, tasks, built, returned, found, parsed>>

\* A caller invokes run_command_streaming(app, port, cmd, ..).
streaming_call ==
    /\ run.pc = "idle"
    /\ child = NoChild
    /\ \E p \in PortInputs, cmd \in CmdInputs :
          run' = [NoCall EXCEPT !.mode = "streaming", !.port = p, !.cmd = cmd,
                                !.pc = "streaming"]
    /\ UNCHANGED <<fsmVars, hfVars, tasks, built, returned, found, parsed>>

\* connection.rs run_command_streaming, lines 260-283: the checks, then
\* spawn_pm3 (lines 304-337: the sidecar unless it is missing, then the
\* scope names until one spawns), then `*lock = Some(child)`.
streaming_spawn ==
    /\ run.pc = "streaming"
    /\ IF run_command_streaming_accepts(run.port, run.cmd)
       THEN \E n \in 1..(1 + Len(pm3_scope_names)) :
               \/ /\ run' = [run EXCEPT !.pc = "reading", !.attempts = n, !.executed = 1,
                                        !.running = 1]
                  /\ child' = Some(1)
               \/ /\ n >= Len(pm3_scope_names)
                  /\ run' = [run EXCEPT !.pc = "returned", !.result = "CommandFailed",
                                        !.attempts = n]
                  /\ UNCHANGED child
       ELSE /\ run' = [run EXCEPT !.pc = "returned", !.result = "CommandFailed"]
            /\ UNCHANGED child
    /\ UNCHANGED <<fsmVars, dump_path, tasks, built, returned, found, parsed>>

\* The most Stdout/Stderr events a modelled subprocess produces.
MaxEvents == 3

\* The timeout_secs argument of run_command_streaming, in seconds.
timeout_secs == 2

\* The bytes of a Stdout or Stderr event: text, text within blanks, and a
\* line that is blank but for a colour sequence.
StreamLines == {<<"a">>, <<" ", "b", " ">>, <<ESC, "[", "0", "m", " ">>}

\* A read loop that hands a line to on_line and puts it at the front of the
\* accumulated output.
read_line_prepending(r, bytes) ==
    LET trimmed == trim(strip_ansi(bytes)) IN
    IF trimmed # <<>>
    THEN [r EXCEPT !.delivered = Append(@, trimmed), !.accumulated = <<trimmed>> \o @]
    ELSE r

\* connection.rs read_stream_with_timeout, lines 368-389: a Stdout or Stderr
\* event is cleaned and trimmed and, unless empty, handed to on_line and
\* pushed to accumulated (modelled as the sequence of its lines).
read_line(r, bytes) ==
    LET trimmed == trim(strip_ansi(bytes)) IN
    IF trimmed # <<>>
    THEN [r EXCEPT !.delivered = Append(@, trimmed), !.accumulated = Append(@, trimmed)]
    ELSE r

\* connection.rs read_stream_with_timeout, lines 354-367: rx.recv() yields
\* a Stdout or Stderr event, here one second after the previous one, which
\* is within the deadline of this recv.
streaming_recv ==
    /\ run.pc = "reading"
    /\ Len(run.produced) < MaxEvents
    /\ 1 < timeout_secs
    /\ \E bytes \in StreamLines :
          run' = read_line([run EXCEPT !.elapsed = @ + 1, !.produced = Append(@, bytes)],
                           bytes)
    /\ UNCHANGED <<fsmVars, hfVars, tasks, built, returned, found, parsed>>

\* connection.rs read_stream_with_timeout and run_command_streaming, lines
\* 286-300: the loop ends with Terminated or the closed channel (the
\* subprocess has ended), with an Error event, or with a recv that outlasts
\* the deadline; then the slot is cleared, which drops the handle without a
\* kill (left = 1: the subprocess runs on).
streaming_end ==
    /\ run.pc = "reading"
    /\ \/ \E code \in ExitCodes :
             run' = [run EXCEPT !.pc = "returned", !.result = exit_result(code),
                                !.running = 0]
       \/ \E left \in {0, 1} :
             run' = [run EXCEPT !.pc = "returned", !.result = "CommandFailed",
                                !.running = left]
       \/ \E left \in {0, 1} :
             run' = [run EXCEPT !.pc = "returned", !.result = "Timeout",
                                !.elapsed = @ + timeout_secs, !.running = left]
    /\ child' = child_after_stream(run'.result, child)
    /\ UNCHANGED <<fsmVars, dump_path, tasks, built, returned, found, parsed>>

\* The call returns its Result to the caller.
runner_return ==
    /\ run.pc = "returned"
    /\ run' = NoCall
    /\ UNCHANGED <<fsmVars, hfVars, tasks, built, returned, found, parsed>>

NextRunner ==
    \/ run_command_call
    \/ execute_pm3
    \/ try_sidecar_silent
    \/ execute_pm3_scope
    \/ streaming_call
    \/ streaming_spawn
    \/ streaming_recv
    \/ streaming_end
    \/ runner_return

SpecRunner == Init /\ [][NextRunner]_vars

-----------------------------------------------------------------------------
(* SpecBuilder: pm3/command_builder.rs build_clone_command, called with    *)
(* any card type, uid and decoded-field map. A command is the format       *)
(* string of its format! call with the arguments interpolated into it.     *)

\* cards/types.rs enum CardType, all variants.
AnyCardType ==
    {"EM4100", "HIDProx", "Indala", "IOProx", "AWID", "FDX_B", "Paradox", "Viking",
     "Pyramid", "Keri", "NexWatch", "Presco", "Nedap", "GProxII", "Gallagher", "PAC",
     "Noralsy", "Jablotron", "SecuraKey", "Visa2000", "Motorola", "IDTECK", "COTAG",
     "EM4x50", "Hitag", "MifareClassic1K", "MifareClassic4K", "MifareUltralight", "NTAG",
     "DESFire", "IClass"}

\* HEX_RE.is_match: ^[0-9A-Fa-f]+$
HEX_RE(s) ==
    /\ Len(s) >= 1
    /\ all_in(s, Digits \cup {"A", "B", "C", "D", "E", "F", "a", "b", "c", "d", "e", "f"})

\* The pattern with * in place of +, which also matches the empty text.
HEX_COLON_RE_or_empty(s) == all_in(s, Digits \cup Letters \cup {":"})

\* HEX_COLON_RE.is_match: ^[0-9A-Za-z:]+$
HEX_COLON_RE(s) == Len(s) >= 1 /\ all_in(s, Digits \cup Letters \cup {":"})

\* validate_hex(value, _).is_ok()
validate_hex(value) == ~(value = <<>> \/ ~HEX_RE(value))

\* VALID_HID_FORMATS; validate_hid_format is membership in it.
VALID_HID_FORMATS ==
    {<<"H", "1", "0", "3", "0", "1">>, <<"H", "1", "0", "3", "0", "2">>,
     <<"H", "1", "0", "3", "0", "4">>, <<"C", "o", "r", "p", "1", "0", "0", "0">>}

DecimalDigits == <<"0", "1", "2", "3", "4", "5", "6", "7", "8", "9">>

\* The number a run of decimal digits denotes.
RECURSIVE digits_value(_)
digits_value(s) ==
    IF s = <<>> THEN 0
    ELSE 10 * digits_value(SubSeq(s, 1, Len(s) - 1))
         + (CHOOSE n \in 0..9 : DecimalDigits[n + 1] = s[Len(s)])

\* A parse that takes digits only and rejects a leading '+'.
parse_without_sign(s) ==
    IF Len(s) >= 1 /\ all_in(s, Digits) THEN <<digits_value(s)>> ELSE <<>>

\* str::parse::<u32>() and ::<u64>(), as an Option: an optional '+', then
\* one or more digits. The texts of the model denote numbers far below
\* either width, so the overflow error is not drawn.
parse(s) ==
    LET d == IF Len(s) >= 1 /\ s[1] = "+" THEN Tail(s) ELSE s IN
    IF Len(d) >= 1 /\ all_in(d, Digits) THEN <<digits_value(d)>> ELSE <<>>

\* Display of an unsigned integer, as format! interpolates it.
RECURSIVE to_string(_)
to_string(n) ==
    IF n < 10 THEN <<DecimalDigits[n + 1]>>
    ELSE to_string(n \div 10) \o <<DecimalDigits[(n % 10) + 1]>>

\* format!(fmt, args..)
format(fmt, args) == [fmt |-> fmt, args |-> args]

\* fc and keri_type are Options.
build_keri_clone(cn, fc, keri_type) ==
    CASE keri_type = <<<<"m">>>> /\ fc # <<>> ->
            format("lf keri clone -t m --fc {} --cn {}", <<fc[1], cn>>)
      [] keri_type # <<>> -> format("lf keri clone -t {} --cn {}", <<keri_type[1], cn>>)
      [] OTHER -> format("lf keri clone --cn {}", <<cn>>)

\* year is an Option.
build_noralsy_clone(cn, year) ==
    IF year # <<>>
    THEN format("lf noralsy clone --cn {} -y {}", <<cn, year[1]>>)
    ELSE format("lf noralsy clone --cn {}", <<cn>>)

\* command_builder.rs build_clone_command: None is <<>>, Some(cmd) is <<cmd>>.
build_clone_command(card_type, uid, decoded) ==
    LET raw == get(decoded, "raw")
        fc == get(decoded, "facility_code")
        cn == get(decoded, "card_number")
        valid_raw == raw # <<>> /\ validate_hex(raw[1])
        raw_or_uid == IF valid_raw THEN raw[1] ELSE uid
        \* decoded.get(key).and_then(|v| v.parse().ok())
        num(key) == IF get(decoded, key) = <<>> THEN <<>> ELSE parse(decoded[key])
        str(key) == to_string(num(key)[1])
        or(key, default) == IF num(key) = <<>> THEN to_string(default) ELSE str(key)
        fc_cn == num("facility_code") # <<>> /\ num("card_number") # <<>>
        hid_format == get(decoded, "format")
        keri_type == get(decoded, "keri_type")
    IN
    IF ~HEX_COLON_RE(uid) THEN <<>>
    ELSE CASE card_type = "EM4100" -> Some(format("lf em 410x clone --id {}", <<uid>>))
      [] card_type = "HIDProx" ->
            IF valid_raw THEN Some(format("lf hid clone -r {}", <<raw[1]>>))
            ELSE IF fc_cn
            THEN Some(format("lf hid clone -w {} --fc {} --cn {}",
                             <<IF hid_format # <<>> /\ hid_format[1] \in VALID_HID_FORMATS
                               THEN hid_format[1] ELSE <<"H", "1", "0", "3", "0", "1">>,
                               str("facility_code"), str("card_number")>>))
            ELSE <<>>
      [] card_type = "Indala" ->
            Some(format("lf indala clone --raw {}", <<IF raw # <<>> THEN raw[1] ELSE uid>>))
      [] card_type = "IOProx" ->
            IF fc_cn
            THEN Some(format("lf io clone --vn {} --fc {} --cn {}",
                             <<or("version", 0), str("facility_code"), str("card_number")>>))
            ELSE Some(format("lf io clone --raw {}", <<uid>>))
      [] card_type = "AWID" ->
            IF fc_cn
            THEN IF num("format") # <<>>
                 THEN Some(format("lf awid clone --fmt {} --fc {} --cn {}",
                                  <<str("format"), str("facility_code"), str("card_number")>>))
                 ELSE Some(format("lf awid clone --fc {} --cn {}",
                                  <<str("facility_code"), str("card_number")>>))
            ELSE <<>>
      [] card_type = "FDX_B" ->
            IF num("country") # <<>> /\ num("national_id") # <<>>
            THEN Some(format("lf fdxb clone --country {} --national {}",
                             <<str("country"), str("national_id")>>))
            ELSE Some(format("lf fdxb clone --raw {}", <<raw_or_uid>>))
      [] card_type = "Paradox" ->
            IF fc_cn
            THEN Some(format("lf paradox clone --fc {} --cn {}",
                             <<str("facility_code"), str("card_number")>>))
            ELSE Some(format("lf paradox clone --raw {}", <<uid>>))
      [] card_type = "Viking" -> Some(format("lf viking clone --cn {}", <<uid>>))
      [] card_type = "Pyramid" ->
            IF fc_cn
            THEN Some(format("lf pyramid clone --fc {} --cn {}",
                             <<str("facility_code"), str("card_number")>>))
            ELSE IF valid_raw THEN Some(format("lf pyramid clone --raw {}", <<raw[1]>>))
            ELSE <<>>
      [] card_type = "Keri" ->
            Some(build_keri_clone(IF cn # <<>> THEN cn[1] ELSE uid, fc,
                                  IF keri_type \in {<<<<"i">>>>, <<<<"m">>>>}
                                  THEN keri_type ELSE <<>>))
      [] card_type = "NexWatch" -> Some(format("lf nexwatch clone --raw {}", <<uid>>))
      [] card_type = "Presco" ->
            IF num("site_code") # <<>> /\ num("user_code") # <<>>
            THEN Some(format("lf presco clone --sitecode {} --usercode {}",
                             <<str("site_code"), str("user_code")>>))
            ELSE Some(format("lf presco clone -d {}", <<uid>>))
      [] card_type = "Nedap" ->
            IF num("subtype") # <<>> /\ num("customer_code") # <<>> /\ num("card_number") # <<>>
            THEN Some(format("lf nedap clone --st {} --cc {} --id {}",
                             <<str("subtype"), str("customer_code"), str("card_number")>>))
            ELSE <<>>
      [] card_type = "GProxII" ->
            IF fc_cn
            THEN Some(format("lf gproxii clone --xor {} --fmt {} --fc {} --cn {}",
                             <<or("xor", 0), or("format", 26), str("facility_code"),
                               str("card_number")>>))
            ELSE <<>>
      [] card_type = "Gallagher" ->
            IF num("region_code") # <<>> /\ fc_cn /\ num("issue_level") # <<>>
            THEN Some(format("lf gallagher clone --rc {} --fc {} --cn {} --il {}",
                             <<str("region_code"), str("facility_code"), str("card_number"),
                               str("issue_level")>>))
            ELSE <<>>
      [] card_type = "PAC" ->
            IF valid_raw THEN Some(format("lf pac clone --raw {}", <<raw[1]>>))
            ELSE IF cn # <<>> THEN Some(format("lf pac clone --cn {}", <<cn[1]>>))
            ELSE Some(format("lf pac clone --cn {}", <<uid>>))
      [] card_type = "Noralsy" ->
            Some(build_noralsy_clone(IF cn # <<>> THEN cn[1] ELSE uid, get(decoded, "year")))
      [] card_type = "Jablotron" ->
            IF cn # <<>> /\ validate_hex(cn[1])
            THEN Some(format("lf jablotron clone --cn {}", <<cn[1]>>))
            ELSE Some(format("lf jablotron clone --cn {}", <<uid>>))
      [] card_type = "SecuraKey" -> Some(format("lf securakey clone --raw {}", <<raw_or_uid>>))
      [] card_type = "Visa2000" ->
            IF num("card_number") # <<>>
            THEN Some(format("lf visa2000 clone --cn {}", <<str("card_number")>>))
            ELSE <<>>
      [] card_type = "Motorola" -> Some(format("lf motorola clone --raw {}", <<raw_or_uid>>))
      [] card_type = "IDTECK" -> Some(format("lf idteck clone --raw {}", <<raw_or_uid>>))
      [] OTHER -> <<>>

\* The keys build_clone_command reads from the decoded map.
DecodedKeys ==
    {"raw", "facility_code", "card_number", "format", "version", "country",
     "national_id", "keri_type", "site_code", "user_code", "subtype", "customer_code",
     "xor", "region_code", "issue_level", "year"}

\* Field texts: hex, decimal, decimal with a sign, a Keri type, a Wiegand
\* format name, and texts carrying a separator or a space.
FieldValues ==
    {<<"1", "F">>, <<"1", "2">>, <<"+", "7">>, <<"m">>, <<"H", "1", "0", "3", "0", "1">>,
     <<"A", ";", "B">>, <<"1", " ", "2">>}

\* The most fields a drawn map holds, apart from the maps holding every key.
MaxFields == 2

DecodedInputs ==
    UNION {[D -> FieldValues] : D \in {K \in SUBSET DecodedKeys : Cardinality(K) <= MaxFields}}
    \cup {[k \in DecodedKeys |-> v] : v \in FieldValues}

\* uid texts: hex, a facility:card display string, letters that are not hex
\* digits, a text with a space, and the empty text.
UidInputs == {<<"0", "F">>, <<"F", "C", ":", "1">>, <<"C", "N", "2">>, <<"0", " ", "F">>, <<>>}

\* A caller invokes build_clone_command(card_type, uid, decoded) and receives
\* the returned Option.
build_clone_command_call ==
    /\ built.pc = "idle"
    /\ \E card_type \in AnyCardType, uid \in UidInputs, decoded \in DecodedInputs :
          built' = [pc |-> "returned", card_type |-> card_type, uid |-> uid,
                    decoded |-> decoded,
                    result |-> build_clone_command(card_type, uid, decoded)]
    /\ UNCHANGED <<fsmVars, hfVars, tasks, run, returned, found, parsed>>

\* The caller is done with the returned value.
build_clone_command_return ==
    /\ built.pc = "returned"
    /\ built' = NotBuilt
    /\ UNCHANGED <<fsmVars, hfVars, tasks, run, returned, found, parsed>>

NextBuilder == build_clone_command_call \/ build_clone_command_return

SpecBuilder == Init /\ [][NextBuilder]_vars

-----------------------------------------------------------------------------
(* SpecParser: pm3/output_parser.rs strip_ansi and parse_lf_search, called  *)
(* with any text, and build_clone_command called with the card the parser   *)
(* returned, as write_clone_with_data does with a scanned card.             *)
(*                                                                          *)
(* The output given to parse_lf_search is the sequence of its words, the    *)
(* runs of characters between white space. Every word of the model, once    *)
(* cleaned, holds a keyword of a pattern only at its end and no run of hex  *)
(* digits that stops before its end, and the texts name no card family but  *)
(* Gallagher, G-Prox, Nedap, NexWatch and Viking: the branches of the other *)
(* families are not entered and are left out.                               *)

\* [0-9A-Fa-f]
HexChars == Digits \cup {"A", "B", "C", "D", "E", "F", "a", "b", "c", "d", "e", "f"}

\* The least member of a non-empty set of numbers.
least(S) == CHOOSE n \in S : \A m \in S : n <= m

\* The clean text of parse_lf_search: strip_ansi applied to the output. No
\* escape sequence holds white space, so each word is stripped by itself,
\* and a word with nothing left no longer separates its neighbours.
clean_words(output) ==
    SelectSeq([i \in 1..Len(output) |-> strip_ansi(output[i])], LAMBDA w : w # <<>>)

\* word.contains(marker)
is_substring(word, marker) ==
    \E k \in 0..(Len(word) - Len(marker)) : SubSeq(word, k + 1, k + Len(marker)) = marker

\* clean.contains(marker), for a marker without white space.
text_contains(clean, marker) == \E i \in 1..Len(clean) : is_substring(clean[i], marker)

\* str::ends_with
ends_with(word, suffix) ==
    Len(suffix) <= Len(word) /\ SubSeq(word, Len(word) - Len(suffix) + 1, Len(word)) = suffix

\* The longest prefix of word made of characters of class: what a greedy
\* ([class]+) captures at the start of word.
RECURSIVE leading(_, _)
leading(word, class) ==
    IF word # <<>> /\ word[1] \in class
    THEN <<word[1]>> \o leading(Tail(word), class)
    ELSE <<>>

\* The words of phrase stand at word j of clean, compared without case: the
\* first may be the end of a longer word, the others are whole words.
phrase_at(clean, j, phrase) ==
    /\ j + Len(phrase) - 1 <= Len(clean)
    /\ ends_with(to_lowercase(clean[j]), phrase[1])
    /\ \A n \in 2..Len(phrase) : to_lowercase(clean[j + n - 1]) = phrase[n]

\* Regex::captures of  (?i)(?:phrase|..)[:/\s]*([class]+)  searched from word
\* `from` on: an Option of the captured text and of the word it stands in.
\* The leftmost match is taken, and there the first alternative that matches.
captures(clean, from, phrases, class) ==
    LET hit(j, n) ==
            /\ phrase_at(clean, j, phrases[n])
            /\ j + Len(phrases[n]) <= Len(clean)
            /\ leading(clean[j + Len(phrases[n])], class) # <<>>
        J == {j \in from..Len(clean) : \E n \in 1..Len(phrases) : hit(j, n)}
    IN
    IF J = {} THEN <<>>
    ELSE LET j == least(J)
             n == least({m \in 1..Len(phrases) : hit(j, m)})
         IN <<[value |-> leading(clean[j + Len(phrases[n])], class),
               at |-> j + Len(phrases[n])]>>

\* The word after the first one that holds one of markers, compared without
\* case: where the  marker.*?  of a pattern lets the search for the rest
\* begin. Past the end of the text when no word holds a marker.
after_marker(clean, markers) ==
    LET I == {i \in 1..Len(clean) : \E m \in markers : is_substring(to_lowercase(clean[i]), m)}
    IN IF I = {} THEN Len(clean) + 1 ELSE least(I) + 1

\* The captured text of an Option of captures.
value_of(caps) == IF caps = <<>> THEN <<>> ELSE <<caps[1].value>>

\* Option::unwrap_or
unwrap_or(option, default) == IF option = <<>> THEN default ELSE option[1]

\* extract_first_hex_block: HEX_BLOCK_RE (?:\b0[xX])?([0-9A-Fa-f]{8,})\b,
\* the capture in upper case. In a word the run ends where the word does.
hex_run(word) ==
    LET K == {k \in 1..Len(word) : all_in(SubSeq(word, k, Len(word)), HexChars)}
    IN IF K = {} THEN <<>> ELSE SubSeq(word, least(K), Len(word))

extract_first_hex_block(clean) ==
    LET I == {i \in 1..Len(clean) : Len(hex_run(clean[i])) >= 8}
    IN IF I = {} THEN <<>> ELSE <<to_uppercase(hex_run(clean[least(I)]))>>

\* STANDALONE_RAW_RE (?im)^\s*\[[+=]\]\s*raw[:/\s]+([0-9A-Fa-f]+), on the
\* one line of the text.
STANDALONE_RAW_RE(clean) ==
    IF /\ Len(clean) >= 3
       /\ clean[1] \in {<<"[", "+", "]">>, <<"[", "=", "]">>}
       /\ to_lowercase(clean[2]) \in {<<"r", "a", "w">>, <<"r", "a", "w", ":">>}
       /\ leading(clean[3], HexChars) # <<>>
    THEN <<leading(clean[3], HexChars)>>
    ELSE <<>>

\* (CardType, CardData) as parse_lf_search returns it. via is not part of
\* the value: it records which extraction produced it.
Tag(card_type, uid, raw, decoded, via) ==
    [card_type |-> card_type, uid |-> uid, raw |-> raw, decoded |-> decoded, via |-> via]

\* decoded of a fallback that is left unmarked: type alone.
raw_fallback_decoded_unmarked(type) == [k \in {"type"} |-> type]

\* decoded of a raw hex fallback: type and raw_fallback = "true".
raw_fallback_decoded(type) ==
    [k \in {"type", "raw_fallback"} |-> IF k = "type" THEN type ELSE <<"t", "r", "u", "e">>]

\* parse_lf_search, the Gallagher branch: GALLAGHER_RE with the four fields
\* on one line, then the per-field patterns, then the raw hex fallback.
gallagher(clean) ==
    LET REGION == << <<<<"r", "e", "g", "i", "o", "n">>, <<"c", "o", "d", "e">>>>, <<<<"r", "e", "g", "i", "o", "n">>>> >>
        FACILITY == << <<<<"f", "a", "c", "i", "l", "i", "t", "y">>, <<"c", "o", "d", "e">>>>, <<<<"f", "a", "c", "i", "l", "i", "t", "y">>>> >>
        CARD == << <<<<"c", "a", "r", "d">>, <<"n", "u", "m", "b", "e", "r">>>>, <<<<"c", "a", "r", "d">>, <<"n", "o", ".">>>>, <<<<"c", "a", "r", "d">>, <<"n", "o">>>> >>
        ISSUE == << <<<<"i", "s", "s", "u", "e">>, <<"l", "e", "v", "e", "l">>>> >>
        from == after_marker(clean, {<<"g", "a", "l", "l", "a", "g", "h", "e", "r">>})
        rc1 == captures(clean, from, REGION, Digits)
        fc1 == IF rc1 = <<>> THEN <<>> ELSE captures(clean, rc1[1].at + 1, FACILITY, Digits)
        cn1 == IF fc1 = <<>> THEN <<>> ELSE captures(clean, fc1[1].at + 1, CARD, Digits)
        il1 == IF cn1 = <<>> THEN <<>> ELSE captures(clean, cn1[1].at + 1, ISSUE, Digits)
        rc2 == captures(clean, 1, REGION, Digits)
        fc2 == captures(clean, 1, FACILITY, Digits)
        cn2 == captures(clean, 1, CARD, Digits)
        il2 == captures(clean, 1, ISSUE, Digits)
        fields(rc, fc, cn, il) ==
            Tag("Gallagher",
                <<"R", "C">> \o rc \o <<":", "F", "C">> \o fc \o <<":", "C", "N">> \o cn \o <<":", "I", "L">> \o il, <<>>,
                [k \in {"type", "region_code", "facility_code", "card_number", "issue_level"} |->
                    CASE k = "type" -> <<"G", "a", "l", "l", "a", "g", "h", "e", "r">>
                      [] k = "region_code" -> rc
                      [] k = "facility_code" -> fc
                      [] k = "card_number" -> cn
                      [] k = "issue_level" -> il],
                "pattern")
        hex == extract_first_hex_block(clean)
    IN
    IF ~(text_contains(clean, <<"G", "a", "l", "l", "a", "g", "h", "e", "r">>) \/ text_contains(clean, <<"G", "A", "L", "L", "A", "G", "H", "E", "R">>)) THEN <<>>
    ELSE IF il1 # <<>>
    THEN <<fields(rc1[1].value, fc1[1].value, cn1[1].value, il1[1].value)>>
    ELSE IF rc2 # <<>> /\ fc2 # <<>> /\ cn2 # <<>> /\ il2 # <<>>
    THEN <<fields(rc2[1].value, fc2[1].value, cn2[1].value, il2[1].value)>>
    ELSE IF hex # <<>>
    THEN <<Tag("Gallagher", hex[1], hex[1], raw_fallback_decoded(<<"G", "a", "l", "l", "a", "g", "h", "e", "r">>), "hex_block")>>
    ELSE <<>>

\* parse_lf_search, the GProxII branch: GPROXII_FC_CN_RE with GPROXII_XOR_RE
\* and GPROXII_FMT_RE, then the raw hex fallback.
gproxii(clean) ==
    LET from == after_marker(clean, {<<"g", "p", "r", "o", "x">>, <<"g", "-", "p", "r", "o", "x">>})
        fc == captures(clean, from, <<<<<<"f", "c">>>>>>, Digits)
        cn == IF fc = <<>> THEN <<>> ELSE captures(clean, fc[1].at + 1, <<<<<<"c", "a", "r", "d">>>>>>, Digits)
        xor == unwrap_or(value_of(captures(clean, 1, <<<<<<"x", "o", "r">>>>>>, Digits)), <<"0">>)
        fmt == unwrap_or(value_of(captures(clean, 1, <<<<<<"l", "e", "n">>>>>>, Digits)), <<"2", "6">>)
        hex == extract_first_hex_block(clean)
    IN
    IF ~(\/ text_contains(clean, <<"G", "u", "a", "r", "d", "a", "l", "l">>)
         \/ text_contains(clean, <<"G", "P", "r", "o", "x">>)
         \/ text_contains(clean, <<"G", "-", "P", "r", "o", "x">>))
    THEN <<>>
    ELSE IF cn # <<>>
    THEN <<Tag("GProxII", <<"F", "C">> \o fc[1].value \o <<":", "C", "N">> \o cn[1].value, <<>>,
               [k \in {"type", "facility_code", "card_number", "xor", "format"} |->
                   CASE k = "type" -> <<"G", "P", "r", "o", "x", "I", "I">>
                     [] k = "facility_code" -> fc[1].value
                     [] k = "card_number" -> cn[1].value
                     [] k = "xor" -> xor
                     [] k = "format" -> fmt],
               "pattern")>>
    ELSE IF hex # <<>>
    THEN <<Tag("GProxII", hex[1], hex[1], raw_fallback_decoded(<<"G", "P", "r", "o", "x", "I", "I">>), "hex_block")>>
    ELSE <<>>

\* parse_lf_search, the Nedap branch: NEDAP_CARD_RE with NEDAP_SUB_RE and
\* NEDAP_CC_RE, then the raw hex fallback.
nedap(clean) ==
    LET from == after_marker(clean, {<<"n", "e", "d", "a", "p">>})
        cn == captures(clean, from, <<<<<<"c", "a", "r", "d">>>>, <<<<"i", "d">>>>>>, Digits)
        st == unwrap_or(value_of(captures(clean, from, <<<<<<"s", "u", "b", "t", "y", "p", "e">>>>, <<<<"s", "u", "b">>>>>>, Digits)), <<"5">>)
        CUSTOMER_CODE == << <<<<"c", "u", "s", "t", "o", "m", "e", "r">>, <<"c", "o", "d", "e">>>>, <<<<"c", "u", "s", "t", "o", "m", "e", "r", "c", "o", "d", "e">>>> >>
        cc == unwrap_or(value_of(captures(clean, 1, CUSTOMER_CODE, Digits)), <<"0">>)
        hex == extract_first_hex_block(clean)
    IN
    IF ~(text_contains(clean, <<"N", "e", "d", "a", "p">>) \/ text_contains(clean, <<"N", "E", "D", "A", "P">>)) THEN <<>>
    ELSE IF cn # <<>>
    THEN <<Tag("Nedap", <<"S", "T">> \o st \o <<":", "C", "C">> \o cc \o <<":", "I", "D">> \o cn[1].value, <<>>,
               [k \in {"type", "subtype", "customer_code", "card_number"} |->
                   CASE k = "type" -> <<"N", "e", "d", "a", "p">>
                     [] k = "subtype" -> st
                     [] k = "customer_code" -> cc
                     [] k = "card_number" -> cn[1].value],
               "pattern")>>
    ELSE IF hex # <<>>
    THEN <<Tag("Nedap", hex[1], hex[1], raw_fallback_decoded(<<"N", "e", "d", "a", "p">>), "hex_block")>>
    ELSE <<>>

\* decoded with type and those of card_id and raw that were found.
type_id_raw(type, card_id, raw) ==
    [k \in {"type"} \cup (IF card_id # <<>> THEN {"card_id"} ELSE {})
                    \cup (IF raw # <<>> THEN {"raw"} ELSE {}) |->
        CASE k = "type" -> type
          [] k = "card_id" -> card_id[1]
          [] k = "raw" -> raw[1]]

\* parse_lf_search, the NexWatch branch: the raw hex of NEXWATCH_RAW_RE or
\* STANDALONE_RAW_RE, the id of NEXWATCH_ID_RE or NEXWATCH_88BIT_ID_RE, and
\* as the last resort the first hex block of the text.
nexwatch(clean) ==
    LET from == after_marker(clean, {<<"n", "e", "x", "w", "a", "t", "c", "h">>, <<"n", "x", "t">>})
        same_line == value_of(captures(clean, from, <<<<<<"r", "a", "w">>>>>>, HexChars))
        found_raw == IF same_line # <<>> THEN same_line ELSE STANDALONE_RAW_RE(clean)
        raw_hex == IF found_raw = <<>> THEN <<>> ELSE <<to_uppercase(found_raw[1])>>
        NEXWATCH_ID == << <<<<"n", "e", "x", "w", "a", "t", "c", "h">>, <<"i", "d">>>>, <<<<"n", "x", "t">>, <<"i", "d">>>>, <<<<"n", "e", "x", "w", "a", "t", "c", "h", "i", "d">>>>, <<<<"n", "x", "t", "i", "d">>>> >>
        BIT88_ID == << <<<<"8", "8", "b", "i", "t">>, <<"i", "d", ":">>>>, <<<<"8", "8", "b", "i", "t">>, <<"i", "d">>, <<":">>>> >>
        id == value_of(captures(clean, 1, NEXWATCH_ID, Digits))
        id88 == value_of(captures(clean, 1, BIT88_ID, Digits))
        card_id == IF id # <<>> THEN id ELSE id88
        hex == extract_first_hex_block(clean)
    IN
    IF ~(text_contains(clean, <<"N", "e", "x", "W", "a", "t", "c", "h">>) \/ text_contains(clean, <<"N", "X", "T">>)) THEN <<>>
    ELSE IF raw_hex # <<>>
    THEN <<Tag("NexWatch", raw_hex[1], raw_hex[1],
               type_id_raw(<<"N", "e", "x", "W", "a", "t", "c", "h">>, card_id, raw_hex), "pattern")>>
    ELSE IF card_id # <<>>
    THEN <<Tag("NexWatch", card_id[1], card_id[1],
               type_id_raw(<<"N", "e", "x", "W", "a", "t", "c", "h">>, card_id, <<>>), "pattern")>>
    ELSE IF hex # <<>>
    THEN <<Tag("NexWatch", hex[1], hex[1], type_id_raw(<<"N", "e", "x", "W", "a", "t", "c", "h">>, <<>>, <<>>), "hex_block")>>
    ELSE <<>>

\* parse_lf_search, the Viking branch: VIKING_ID_RE, VIKING_RAW_RE, and as
\* the last resort the first hex block of the text.
viking(clean) ==
    LET from == after_marker(clean, {<<"v", "i", "k", "i", "n", "g">>})
        CARD_ID == << <<<<"c", "a", "r", "d">>, <<"i", "d">>>>, <<<<"c", "a", "r", "d", "i", "d">>>>, <<<<"c", "a", "r", "d">>>>, <<<<"i", "d">>>> >>
        id == value_of(captures(clean, from, CARD_ID, HexChars))
        found_raw == value_of(captures(clean, from, <<<<<<"r", "a", "w">>>>>>, HexChars))
        raw == IF found_raw = <<>> THEN <<>> ELSE <<to_uppercase(found_raw[1])>>
        hex == extract_first_hex_block(clean)
    IN
    IF ~(text_contains(clean, <<"V", "i", "k", "i", "n", "g">>) \/ text_contains(clean, <<"v", "i", "k", "i", "n", "g">>)) THEN <<>>
    ELSE IF id # <<>> /\ raw # <<>>
    THEN <<Tag("Viking", raw[1], raw[1], type_id_raw(<<"V", "i", "k", "i", "n", "g">>, id, raw), "pattern")>>
    ELSE IF id # <<>>
    THEN <<Tag("Viking", id[1], id[1], type_id_raw(<<"V", "i", "k", "i", "n", "g">>, id, <<>>), "pattern")>>
    ELSE IF raw # <<>>
    THEN <<Tag("Viking", raw[1], raw[1], type_id_raw(<<"V", "i", "k", "i", "n", "g">>, <<>>, raw), "pattern")>>
    ELSE IF hex # <<>>
    THEN <<Tag("Viking", hex[1], hex[1], type_id_raw(<<"V", "i", "k", "i", "n", "g">>, <<>>, <<>>), "hex_block")>>
    ELSE <<>>

\* VALID_TAG_RE \[\+\]\s*Valid\s+(\S+)\s+.*?found: the captured tag name.
VALID_TAG_RE(clean) ==
    LET J == {j \in 1..Len(clean) :
                 /\ \/ ends_with(clean[j], <<"[", "+", "]", "V", "a", "l", "i", "d">>)
                    \/ j >= 2 /\ clean[j] = <<"V", "a", "l", "i", "d">> /\ ends_with(clean[j - 1], <<"[", "+", "]">>)
                 /\ \E k \in (j + 2)..Len(clean) : is_substring(clean[k], <<"f", "o", "u", "n", "d">>)}
    IN IF J = {} THEN <<>> ELSE <<clean[least(J) + 1]>>

\* parse_lf_search, the generic fallback for "[+] Valid <TYPE> ... found".
valid_tag(clean) ==
    LET tag_name == VALID_TAG_RE(clean)
        hex == extract_first_hex_block(clean)
        card_type == IF to_lowercase(tag_name[1]) = <<"v", "i", "k", "i", "n", "g">> THEN "Viking" ELSE "NexWatch"
    IN
    IF tag_name = <<>> \/ to_lowercase(tag_name[1]) \notin {<<"v", "i", "k", "i", "n", "g">>, <<"n", "e", "x", "w", "a", "t", "c", "h">>} THEN <<>>
    ELSE IF hex # <<>>
    THEN <<Tag(card_type, hex[1], hex[1], [k \in {"type"} |-> tag_name[1]], "hex_block")>>
    ELSE <<Tag(card_type, <<"u", "n", "k", "n", "o", "w", "n">>, <<>>, [k \in {"type"} |-> tag_name[1]], "unknown")>>

\* The first of the branches that returns, None if none does.
first_return(branches) ==
    LET I == {i \in 1..Len(branches) : branches[i] # <<>>}
    IN IF I = {} THEN <<>> ELSE branches[least(I)]

\* parse_lf_search with the extraction that produced the result: the
\* branches in the order of the source.
lf_search(clean) ==
    first_return(<<gallagher(clean), gproxii(clean), nedap(clean), nexwatch(clean),
                   viking(clean), valid_tag(clean)>>)

\* The value of a tagged result: None is <<>>, Some((card_type, data)) is
\* <<r>>.
returned_card(tagged) ==
    IF tagged = <<>> THEN <<>>
    ELSE <<[card_type |-> tagged[1].card_type, uid |-> tagged[1].uid, raw |-> tagged[1].raw,
            decoded |-> tagged[1].decoded]>>

\* The extraction that produced a tagged result.
extraction(tagged) == IF tagged = <<>> THEN NONE ELSE tagged[1].via

\* parse_lf_search(output)
parse_lf_search(output) == returned_card(lf_search(clean_words(output)))

\* The words the drawn texts are made of.
Words ==
    {<<"N", "e", "d", "a", "p">>, <<"G", "-", "P", "r", "o", "x">>, <<"G", "a", "l", "l", "a", "g", "h", "e", "r">>, <<"N", "X", "T">>, <<"V", "i", "k", "i", "n", "g">>, <<"V", "I", "K", "I", "N", "G">>, <<"I", "D">>, <<"R", "a", "w">>, <<"1", "2">>,
     <<"1", "f", "2", "e", "3", "d", "4", "c">>, <<"[", "+", "]", "V", "a", "l", "i", "d">>, <<"f", "o", "u", "n", "d">>, <<ESC, "[", "0", "m">>}

\* The most words of a drawn text, apart from the sample lines.
MaxWords == 3

\* Lines as the device tool prints them, longer than MaxWords.
SampleLines ==
    {<<<<"G", "-", "P", "r", "o", "x">>, <<"F", "C">>, <<"1", "2">>, <<"C", "a", "r", "d">>, <<"1", "2">>>>,
     <<<<"G", "a", "l", "l", "a", "g", "h", "e", "r">>, <<"R", "e", "g", "i", "o", "n">>, <<"1", "2">>, <<"F", "a", "c", "i", "l", "i", "t", "y">>, <<"1", "2">>, <<"C", "a", "r", "d">>, <<"N", "u", "m", "b", "e", "r">>, <<"1", "2">>, <<"I", "s", "s", "u", "e">>,
       <<"L", "e", "v", "e", "l">>, <<"1", "2">>>>,
     <<<<"[", "=", "]">>, <<"r", "a", "w">>, <<"1", "f", "2", "e", "3", "d", "4", "c">>, <<"N", "X", "T">>>>,
     <<<<"[", "+", "]", "V", "a", "l", "i", "d">>, <<"V", "I", "K", "I", "N", "G">>, <<"I", "D">>, <<"1", "f", "2", "e", "3", "d", "4", "c">>, <<"f", "o", "u", "n", "d">>>>}

OutputInputs == UNION {[1..n -> Words] : n \in 0..MaxWords} \cup SampleLines

\* The characters the texts given to strip_ansi are made of, and the most
\* characters of one.
AnsiChars == {ESC, "[", "3", "m", "a"}

MaxText == 6

AnsiInputs == UNION {[1..n -> AnsiChars] : n \in 0..MaxText}

\* strip_ansi(input) is called.
strip_ansi_call ==
    /\ parsed.pc = "idle"
    /\ \E input \in AnsiInputs :
          parsed' = [pc |-> "stripped", input |-> input, output |-> strip_ansi(input)]
    /\ UNCHANGED <<fsmVars, hfVars, tasks, run, built, returned, found>>

\* strip_ansi is called with the text the first call returned, as
\* parse_lf_search does with the output execute_pm3 has cleaned.
strip_ansi_again ==
    /\ parsed.pc = "stripped"
    /\ parsed' = [pc |-> "stripped_again", input |-> parsed.input, output |-> parsed.output,
                  again |-> strip_ansi(parsed.output)]
    /\ UNCHANGED <<fsmVars, hfVars, tasks, run, built, returned, found>>

\* parse_lf_search(output) is called.
parse_lf_search_call ==
    /\ parsed.pc = "idle"
    /\ \E output \in OutputInputs :
          parsed' = [pc |-> "parsed", output |-> output, result |-> parse_lf_search(output),
                     via |-> extraction(lf_search(clean_words(output)))]
    /\ UNCHANGED <<fsmVars, hfVars, tasks, run, built, returned, found>>

\* write.rs write_t5577_flow: build_clone_command(card_type, uid, decoded)
\* with the card the scan returned.
clone_scanned_card ==
    /\ parsed.pc = "parsed"
    /\ parsed.result # <<>>
    /\ parsed' = [pc |-> "built", output |-> parsed.output, result |-> parsed.result,
                  via |-> parsed.via,
                  command |-> build_clone_command(parsed.result[1].card_type,
                                                  parsed.result[1].uid,
                                                  parsed.result[1].decoded)]
    /\ UNCHANGED <<fsmVars, hfVars, tasks, run, built, returned, found>>

\* The white space of the modelled texts.
White == {" "}

\* The index after the longest run of characters of class that starts at i.
RECURSIVE span_end(_, _, _)
span_end(s, i, class) ==
    IF i <= Len(s) /\ s[i] \in class THEN span_end(s, i + 1, class) ELSE i

\* The items the patterns of the streaming decoder are made of: a literal
\* text, \s+ or \s*, a captured (\d+), a captured ([0-9A-Fa-f]{n}), and an
\* optional literal.
Lit(text) == [item |-> "lit", text |-> text]

Ws(min) == [item |-> "ws", min |-> min]

DigitsCap == [item |-> "digits"]

HexCap(n) == [item |-> "hex", n |-> n]

Opt(text) == [item |-> "opt", text |-> text]

NoMatch == [ok |-> FALSE, end |-> 0, caps |-> <<>>]

\* text stands at index i of s; under (?i) the pattern's text is lower case.
lit_at(s, i, text, ci) ==
    /\ i + Len(text) - 1 <= Len(s)
    /\ (IF ci THEN to_lowercase(SubSeq(s, i, i + Len(text) - 1))
        ELSE SubSeq(s, i, i + Len(text) - 1)) = text

\* The match of the items p.. of pat at index i of s: whether there is one,
\* where it ends and what it captured. Each repetition is followed by an
\* item that starts with a character outside its class, so the greedy match
\* is the only one.
RECURSIVE match_from(_, _, _, _, _)
match_from(s, i, pat, p, ci) ==
    IF p > Len(pat) THEN [ok |-> TRUE, end |-> i, caps |-> <<>>]
    ELSE LET it == pat[p] IN
         CASE it.item = "lit" ->
                IF lit_at(s, i, it.text, ci)
                THEN match_from(s, i + Len(it.text), pat, p + 1, ci)
                ELSE NoMatch
           [] it.item = "opt" ->
                IF lit_at(s, i, it.text, ci)
                   /\ match_from(s, i + Len(it.text), pat, p + 1, ci).ok
                THEN match_from(s, i + Len(it.text), pat, p + 1, ci)
                ELSE match_from(s, i, pat, p + 1, ci)
           [] it.item = "ws" ->
                IF span_end(s, i, White) - i >= it.min
                THEN match_from(s, span_end(s, i, White), pat, p + 1, ci)
                ELSE NoMatch
           [] it.item = "digits" ->
                LET j == span_end(s, i, Digits)
                    r == match_from(s, j, pat, p + 1, ci)
                IN IF j > i /\ r.ok
                   THEN [r EXCEPT !.caps = <<SubSeq(s, i, j - 1)>> \o r.caps]
                   ELSE NoMatch
           [] it.item = "hex" ->
                LET j == i + it.n
                    r == match_from(s, j, pat, p + 1, ci)
                IN IF j - 1 <= Len(s) /\ all_in(SubSeq(s, i, j - 1), HexChars) /\ r.ok
                   THEN [r EXCEPT !.caps = <<SubSeq(s, i, j - 1)>> \o r.caps]
                   ELSE NoMatch

\* Regex::captures: an Option of the captured texts of the leftmost match.
regex_captures(s, pat, ci) ==
    LET I == {i \in 1..(Len(s) + 1) : match_from(s, i, pat, 1, ci).ok} IN
    IF I = {} THEN <<>> ELSE <<match_from(s, least(I), pat, 1, ci).caps>>

\* Regex::is_match
is_match(s, pat, ci) == regex_captures(s, pat, ci) # <<>>

\* found\s+(\d+)\s+/\s+(\d+)\s+keys: white space required around the slash.
AUTOPWN_KEYS_RE_spaced ==
    <<Lit(<<"f", "o", "u", "n",
          "d">>), Ws(1), DigitsCap, Ws(1), Lit(<<"/">>), Ws(1), DigitsCap, Ws(1), Lit(<<"k", "e", "y",
          "s">>)>>

\* found\s+(\d+)\s*/\s*(\d+)\s+keys
AUTOPWN_KEYS_RE ==
    <<Lit(<<"f", "o", "u", "n",
          "d">>), Ws(1), DigitsCap, Ws(0), Lit(<<"/">>), Ws(0), DigitsCap, Ws(1), Lit(<<"k", "e", "y",
          "s">>)>>

\* (?i)found\s+valid\s+key\s*\[\s*([0-9A-Fa-f]{12})\s*\]
AUTOPWN_KEY_FOUND_RE ==
    <<Lit(<<"f", "o", "u", "n", "d">>), Ws(1), Lit(<<"v", "a", "l", "i", "d">>), Ws(1), Lit(<<"k", "e",
          "y">>), Ws(0), Lit(<<"[">>), Ws(0), HexCap(12),
      Ws(0), Lit(<<"]">>)>>

\* (?i)Succeeded\s+in\s+dumping\s+all\s+blocks
AUTOPWN_DUMP_OK_RE ==
    <<Lit(<<"s", "u", "c", "c", "e", "e", "d", "e", "d">>), Ws(1), Lit(<<"i", "n">>), Ws(1), Lit(<<"d",
          "u", "m", "p", "i", "n", "g">>), Ws(1), Lit(<<"a", "l", "l">>), Ws(1),
      Lit(<<"b", "l", "o", "c", "k", "s">>)>>

\* (?i)Dump\s+file\s+is\s+PARTIAL
AUTOPWN_DUMP_PARTIAL_RE ==
    <<Lit(<<"d", "u", "m", "p">>), Ws(1), Lit(<<"f", "i", "l", "e">>), Ws(1), Lit(<<"i",
          "s">>), Ws(1), Lit(<<"p", "a", "r", "t", "i", "a", "l">>)>>

\* (?i)all\s+key\s+recovery\s+attempts?\s+failed
AUTOPWN_FAIL_RE ==
    <<Lit(<<"a", "l", "l">>), Ws(1), Lit(<<"k", "e", "y">>), Ws(1), Lit(<<"r", "e", "c", "o", "v", "e",
          "r", "y">>), Ws(1), Lit(<<"a", "t", "t", "e", "m", "p", "t">>), Opt(<<"s">>),
      Ws(1), Lit(<<"f", "a", "i", "l", "e", "d">>)>>

\* (?i)autopwn\s+execution\s+time\s*:\s*(\d+)\s*seconds?
AUTOPWN_TIME_RE ==
    <<Lit(<<"a", "u", "t", "o", "p", "w", "n">>), Ws(1), Lit(<<"e", "x", "e", "c", "u", "t", "i", "o",
          "n">>), Ws(1), Lit(<<"t", "i", "m", "e">>), Ws(0), Lit(<<":">>), Ws(0),
      DigitsCap, Ws(0), Lit(<<"s", "e", "c", "o", "n", "d">>), Opt(<<"s">>)>>

\* The character U+0060 (a TLA+ string cannot hold it).
BACKTICK == "'"

\* The capture ([^\s`]+\.(?:bin|json|eml)) at index p of s: the longest
\* text of the run of characters other than white space and backtick that
\* ends with one of the extensions after at least one character.
file_name_at(s, p) ==
    LET q == span_end(s, p, {s[k] : k \in 1..Len(s)} \ (White \cup {BACKTICK}))
        E == {e \in (p + 1)..(q - 1) :
                \E ext \in {<<".", "b", "i", "n">>, <<".", "j", "s", "o", "n">>, <<".", "e", "m", "l">>} :
                    e - p >= Len(ext) + 1 /\ lit_at(s, e - Len(ext) + 1, ext, TRUE)}
    IN IF E = {} THEN <<>>
       ELSE <<SubSeq(s, p, CHOOSE e \in E : \A f \in E : f <= e)>>

\* (?:to\s+(?:binary\s+)?file\s+[`]?|file\s+) and the capture, at index k.
saved_to_file_at(s, k) ==
    LET to_file == match_from(s, k, <<Lit(<<"t", "o">>), Ws(1), Lit(<<"f", "i", "l",
          "e">>), Ws(1), Opt(<<BACKTICK>>)>>, 1, TRUE)
        to_binary_file == match_from(s, k, <<Lit(<<"t", "o">>), Ws(1), Lit(<<"b", "i", "n", "a", "r",
              "y">>), Ws(1), Lit(<<"f", "i", "l", "e">>),
                                            Ws(1)>>, 1, TRUE)
        file == match_from(s, k, <<Lit(<<"f", "i", "l", "e">>), Ws(1)>>, 1, TRUE)
        tick(r) == IF lit_at(s, r.end, <<BACKTICK>>, FALSE) /\ file_name_at(s, r.end + 1) # <<>>
                   THEN r.end + 1 ELSE r.end
    IN CASE to_binary_file.ok -> file_name_at(s, tick(to_binary_file))
         [] to_file.ok -> file_name_at(s, to_file.end)
         [] file.ok -> file_name_at(s, file.end)
         [] OTHER -> <<>>

\* AUTOPWN_DUMP_SAVED_RE.captures:
\* (?i)saved\s+.*?(?:to\s+(?:binary\s+)?file\s+[`]?|file\s+)([^\s`]+\.(?:bin|json|eml))
\* The lazy .*? ends at the first index where the rest matches; what the
\* first `saved` cannot complete no later one can.
AUTOPWN_DUMP_SAVED_RE(s) ==
    LET I == {i \in 1..Len(s) : match_from(s, i, <<Lit(<<"s", "a", "v", "e", "d">>), Ws(1)>>, 1, TRUE).ok}
        from == IF I = {} THEN Len(s) + 1
                ELSE match_from(s, least(I), <<Lit(<<"s", "a", "v", "e", "d">>), Ws(1)>>, 1, TRUE).end
        K == {k \in from..Len(s) : saved_to_file_at(s, k) # <<>>}
    IN IF K = {} THEN <<>> ELSE saved_to_file_at(s, least(K))

\* cards/types.rs AutopwnEvent
Failed(reason) == [event |-> "Failed", reason |-> reason]

Finished(time_secs) == [event |-> "Finished", time_secs |-> time_secs]

DumpComplete(file_path) == [event |-> "DumpComplete", file_path |-> file_path]

DumpPartial(file_path) == [event |-> "DumpPartial", file_path |-> file_path]

KeyFound(key) == [event |-> "KeyFound", key |-> key]

DictionaryProgress(found_keys, total) ==
    [event |-> "DictionaryProgress", found |-> found_keys, total |-> total]

\* output_parser.rs parse_autopwn_line, lines 1183-1203: the attack phase.
attack_phase(trimmed) ==
    LET has(text) == is_substring(trimmed, text) IN
    CASE has(<<"D", "a", "r", "k", "s", "i", "d", "e", " ", "a", "t", "t", "a", "c", "k">>) \/ has(<<"d",
          "a", "r", "k", "s", "i", "d", "e">>) -> <<[event |-> "DarksideStarted"]>>
      [] has(<<"H", "a", "r", "d", "n", "e", "s", "t", "e", "d", " ", "a", "t", "t", "a", "c",
            "k">>) \/ has(<<"h", "a", "r", "d", "n", "e", "s", "t", "e",
            "d">>) -> <<[event |-> "HardnestedStarted"]>>
      [] has(<<"S", "t", "a", "t", "i", "c", "n", "e", "s", "t", "e", "d">>) \/ has(<<"s", "t", "a", "t",
            "i", "c", "n", "e", "s", "t", "e", "d">>) \/ has(<<"s", "t", "a", "t", "i", "c", " ", "n",
            "o", "n", "c", "e">>) ->
            <<[event |-> "StaticnestedStarted"]>>
      [] /\ has(<<"N", "e", "s", "t", "e", "d", " ", "a", "t", "t", "a", "c", "k">>) \/ has(<<"n", "e",
            "s", "t", "e", "d", " ", "a", "u", "t", "h", "e", "n", "t", "i", "c", "a", "t", "i", "o", "n">>)
         /\ ~has(<<"H", "a", "r", "d", "n", "e", "s", "t", "e", "d">>) /\ ~has(<<"h", "a", "r", "d", "n",
               "e", "s", "t", "e", "d">>)
         /\ ~has(<<"S", "t", "a", "t", "i", "c", "n", "e", "s", "t", "e", "d">>) /\ ~has(<<"s", "t", "a",
               "t", "i", "c", "n", "e", "s", "t", "e", "d">>) -> <<[event |-> "NestedStarted"]>>
      [] OTHER -> <<>>

\* output_parser.rs parse_autopwn_line, given the patterns of the key count:
\* None is <<>>, Some(event) is <<event>>.
autopwn_event(trimmed, keys_re) ==
    LET time == regex_captures(trimmed, AUTOPWN_TIME_RE, TRUE)
        saved == AUTOPWN_DUMP_SAVED_RE(trimmed)
        key == regex_captures(trimmed, AUTOPWN_KEY_FOUND_RE, TRUE)
        keys == regex_captures(trimmed, keys_re, FALSE)
    IN
    IF trimmed = <<>> THEN <<>>
    ELSE IF is_match(trimmed, AUTOPWN_FAIL_RE, TRUE)
    THEN <<Failed("All key recovery attempts failed")>>
    ELSE IF time # <<>> THEN <<Finished(unwrap_or(parse(time[1][1]), 0))>>
    ELSE IF is_match(trimmed, AUTOPWN_DUMP_OK_RE, TRUE) THEN <<DumpComplete(<<>>)>>
    ELSE IF is_match(trimmed, AUTOPWN_DUMP_PARTIAL_RE, TRUE) THEN <<DumpPartial(<<>>)>>
    ELSE IF saved # <<>> THEN <<DumpComplete(saved[1])>>
    ELSE IF key # <<>> THEN <<KeyFound(to_uppercase(key[1][1]))>>
    ELSE IF keys # <<>>
    THEN <<DictionaryProgress(unwrap_or(parse(keys[1][1]), 0), unwrap_or(parse(keys[1][2]), 0))>>
    ELSE attack_phase(trimmed)

\* output_parser.rs parse_autopwn_line
parse_autopwn_line(line) == autopwn_event(trim(strip_ansi(line)), AUTOPWN_KEYS_RE)

\* What the device tool puts before and after the text of a line: the
\* message tag, plain or coloured, a remark, a blank, a colour reset.
LineTags == {<<>>, <<"[", "=", "]", " ">>, <<"[", "+", "]", " ">>, <<ESC>> \o <<"[", "3", "2", "m", "[",
      "+", "]">> \o <<ESC>> \o <<"[", "0", "m", " ">>}

LineTails == {<<>>, <<" ", "(", "D", ")">>, <<" ">>, <<ESC>> \o <<"[", "0", "m">>}

\* The key counts of the drawn lines, as printed.
KeyCounts == {<<"0">>, <<"7">>, <<"1", "2">>, <<"3", "2">>, <<"0", "0", "7">>}

\* Lines that report a key count: `found N/M keys` with the white space the
\* tool may print.
KeyCountLines ==
    {[line |-> tag \o <<"f", "o", "u", "n", "d">> \o g1 \o n \o g2 \o <<"/">> \o g3 \o m \o g4 \o <<"k",
          "e", "y", "s">> \o tail,
      reports |-> "keys", n |-> n, m |-> m] :
        tag \in LineTags, tail \in LineTails, n \in KeyCounts, m \in KeyCounts,
        g1 \in {<<" ">>, <<" ",
              " ">>}, g2 \in {<<>>, <<" ">>}, g3 \in {<<>>, <<" ">>}, g4 \in {<<" ">>, <<" ", " ">>}}

\* Lines that report that all blocks were dumped.
DumpedLines ==
    {[line |-> tag \o text \o tail, reports |-> "dumped", n |-> <<>>, m |-> <<>>] :
        tag \in LineTags, tail \in LineTails,
        text \in {<<"S", "u", "c", "c", "e", "e", "d", "e", "d", " ", "i", "n", " ", "d", "u", "m", "p",
              "i", "n", "g", " ", "a", "l", "l", " ", "b", "l", "o", "c", "k", "s">>, <<"s", "u", "c",
              "c", "e", "e", "d", "e", "d", " ", "i", "n", " ", "d", "u", "m", "p", "i", "n", "g", " ",
              "a", "l", "l", " ", "b", "l", "o", "c", "k", "s">>,
                  <<"S", "u", "c", "c", "e", "e", "d", "e", "d", " ", "i", "n", " ", "d", "u", "m", "p",
                        "i", "n", "g", " ", " ", "a", "l", "l", " ", "b", "l", "o", "c", "k", "s", " ",
                        "t", "o", " ", "f", "i", "l", "e">>}}

\* Empty lines and lines that report nothing the decoder knows.
UnrelatedLines ==
    {[line |-> tag \o text \o tail, reports |-> "nothing", n |-> <<>>, m |-> <<>>] :
        tag \in LineTags, tail \in LineTails,
        text \in {<<>>, <<" ">>, <<"f", "o", "u", "n", "d", " ", "k", "e", "y", "s">>, <<"f", "o", "u",
              "n", "d", " ", "1", "2", " ", "k", "e", "y", "s">>, <<"1", "2", "/", "3", "2", " ", "k",
              "e", "y", "s">>, <<"f", "o", "u", "n", "d", " ", "1", "2", "/", "3", "2">>,
                  <<"S", "u", "c", "c", "e", "e", "d", "e", "d", " ", "i", "n", " ", "d", "u", "m", "p",
                        "i", "n", "g">>, <<"d", "u", "m", "p", "i", "n", "g", " ", "a", "l", "l", " ",
                        "b", "l", "o", "c", "k", "s">>, <<"C", "h", "e", "c", "k", "i", "n", "g", " ",
                        "k", "e", "y", "s">>,
                  <<"v", "a", "l", "i", "d", " ", "k", "e", "y", " ", "[", " ", "F", "F", "F", "F", "F",
                        "F", "F", "F", "F", "F", "F", "F", " ", "]">>, <<"e", "x", "e", "c", "u", "t",
                        "i", "o", "n", " ", "t", "i", "m", "e", ":", " ", "4", "5", " ", "s", "e", "c",
                        "o", "n", "d", "s">>,
                  <<"D", "u", "m", "p", " ", "f", "i", "l", "e", " ", "i", "s", " ", "c", "o", "m", "p",
                        "l", "e", "t", "e">>, <<"f", "i", "l", "e", " ", "h", "f", "-", "m", "f", "-",
                        "0", "1", "0", "2", "0", "3", "0", "4", "-", "d", "u", "m", "p">>, <<"N", "e",
                        "s", "t", "e", "d">>}}

\* The lines of the decoder's tests and of the pattern comments.
AutopwnSampleLines ==
    {<<"[", "=", "]", " ", "f", "o", "u", "n", "d", " ", "1", "2", "/", "3", "2", " ", "k", "e", "y", "s",
          " ", "(", "D", ")">>, <<"[", "+", "]", " ", "f", "o", "u", "n", "d", " ", "v", "a", "l", "i",
          "d", " ", "k", "e", "y", " ", "[", " ", "a", "0", "a", "1", "a", "2", "a", "3", "a", "4", "a",
          "5", " ", "]">>,
     <<"[", "!", "]", " ", "D", "a", "r", "k", "s", "i", "d", "e", " ", "a", "t", "t", "a", "c", "k", " ",
           "s", "t", "a", "r", "t", "i", "n", "g", ".", ".", ".">>, <<"[", "=", "]", " ", "N", "e", "s",
           "t", "e", "d", " ", "a", "t", "t", "a", "c", "k", " ", "s", "t", "a", "r", "t", "i", "n", "g",
           ".", ".", ".">>,
     <<"[", "=", "]", " ", "H", "a", "r", "d", "n", "e", "s", "t", "e", "d", " ", "a", "t", "t", "a", "c",
           "k", " ", "s", "t", "a", "r", "t", "i", "n", "g", ".", ".", ".">>, <<"[", "=", "]", " ", "S",
           "t", "a", "t", "i", "c", "n", "e", "s", "t", "e", "d", " ", "a", "t", "t", "a", "c", "k", " ",
           "s", "t", "a", "r", "t", "i", "n", "g", ".", ".", ".">>,
     <<"[", "+", "]", " ", "S", "u", "c", "c", "e", "e", "d", "e", "d", " ", "i", "n", " ", "d", "u", "m",
           "p", "i", "n", "g", " ", "a", "l", "l", " ", "b", "l", "o", "c", "k", "s">>, <<"[", "=", "]",
           " ", "D", "u", "m", "p", " ", "f", "i", "l", "e", " ", "i", "s", " ", "P", "A", "R", "T", "I",
           "A", "L", " ", "c", "o", "m", "p", "l", "e", "t", "e">>,
     <<"[", "+", "]", " ", "s", "a", "v", "e", "d", " ", "6", "4", " ", "b", "l", "o", "c", "k", "s", " ",
           "t", "o", " ", "f", "i", "l", "e", " ", "h", "f", "-", "m", "f", "-", "0", "1", "0", "2", "0",
           "3", "0", "4", "-", "d", "u", "m", "p", ".", "b", "i", "n">>,
     <<"[", "+", "]", " ", "s", "a", "v", "e", "d", " ", "t", "o", " ", "b", "i", "n", "a", "r", "y", " ",
           "f", "i", "l", "e", " ", BACKTICK, "h", "f", "-", "m", "f", "-", "0", "1", "0", "2", "0", "3",
           "0", "4", "-", "d", "u", "m", "p", ".", "b", "i", "n", BACKTICK>>,
     <<"[", "+", "]", " ", "s", "a", "v", "e", "d", " ", "t", "o", " ", "j", "s", "o", "n", " ", "f", "i",
           "l", "e", " ", BACKTICK, "h", "f", "-", "m", "f", "-", "0", "1", "0", "2", "0", "3", "0", "4",
           "-", "d", "u", "m", "p", ".", "j", "s", "o", "n", BACKTICK>>,
     <<"[", "-", "]", " ", "a", "l", "l", " ", "k", "e", "y", " ", "r", "e", "c", "o", "v", "e", "r", "y",
           " ", "a", "t", "t", "e", "m", "p", "t", "s", " ", "f", "a", "i", "l", "e", "d">>, <<"[", "=",
           "]", " ", "a", "u", "t", "o", "p", "w", "n", " ", "e", "x", "e", "c", "u", "t", "i", "o", "n",
           " ", "t", "i", "m", "e", ":", " ", "4", "5", " ", "s", "e", "c", "o", "n", "d", "s">>}

\* Partial lines: every beginning and every end of a sample line.
PartialLines ==
    {[line |-> part, reports |-> "partial", n |-> <<>>, m |-> <<>>] :
        part \in UNION {{SubSeq(l, 1, k) : k \in 0..Len(l)} \cup {SubSeq(l, k, Len(l)) : k \in 1..Len(l)} :
                          l \in AutopwnSampleLines}}

AutopwnLines == KeyCountLines \cup DumpedLines \cup UnrelatedLines \cup PartialLines

\* hf_clone.rs hf_autopwn, the on_line callback: parse_autopwn_line(line)
\* is called with one line of the stream.
parse_autopwn_line_call ==
    /\ parsed.pc = "idle"
    /\ \E l \in AutopwnLines :
          parsed' = [pc |-> "autopwn", line |-> l.line, reports |-> l.reports, n |-> l.n,
                     m |-> l.m, event |-> parse_autopwn_line(l.line)]
    /\ UNCHANGED <<fsmVars, hfVars, tasks, run, built, returned, found>>

\* The caller is done with the returned value.
parser_return ==
    /\ parsed.pc # "idle"
    /\ parsed' = NotParsed
    /\ UNCHANGED <<fsmVars, hfVars, tasks, run, built, returned, found>>

NextParser ==
    \/ strip_ansi_call
    \/ strip_ansi_again
    \/ parse_lf_search_call
    \/ clone_scanned_card
    \/ parse_autopwn_line_call
    \/ parser_return

SpecParser == Init /\ [][NextParser]_vars

-----------------------------------------------------------------------------
(* Properties of the workflow FSM and of the commands that drive it.       *)

MarkCompleteActions == {a \in UserAction : a.action = "MarkComplete"}

\* C1: the machine enters Complete only by MarkComplete applied in a
\* VerificationComplete state whose success flag is true, and MarkComplete
\* in VerificationComplete with success = false is rejected and leaves the
\* machine where it was.
C1_CompleteOnlyAfterSuccessfulVerification ==
    /\ [][(current'.step = "Complete" /\ current.step # "Complete")
            => /\ current.step = "VerificationComplete"
               /\ current.success
               /\ last' = "MarkComplete"]_vars
    /\ [](current.step = "VerificationComplete" /\ ~current.success
            => \A a \in MarkCompleteActions, now \in Timestamps :
                  LET r == transition(Machine, a, now) IN
                  ~r.ok /\ r.err = NotValidFrom(a, current) /\ r.current = current)

\* Complete was entered by MarkComplete.
C1_Witness == current.step = "Complete" /\ last = "MarkComplete"

C3_BlankDetectionBeforeWriting ==
    /\ [](current.step = "Writing"
            => since.identified /\ since.waiting /\ since.blank_ready)
    /\ [][(current'.step = "Writing" /\ current.step # "Writing")
            => current.step = "BlankDetected" /\ last = "BlankReady"]_vars
    /\ [](\A a \in UserAction : a.action # "BlankReady")

\* A write began after a blank was detected for the identified card.
C3_Witness == current.step = "Writing" /\ since.blank_ready /\ last = "StartWrite"

T5577Flow(l) == l.cmd = "write_clone_with_data" /\ l.blank = "T5577"

WipedAndReverified(l) == l.chk = "found" /\ l.wiped /\ l.reverify = "clean"

\* C4: in a T5577 write flow whose first detect reported a password, the
\* clone command is sent only after the password was found, the wipe was
\* sent and the detect after it reported the chip present without password;
\* and when the flow ends without all three, no clone command was sent and
\* the step that ends it leaves the machine in Error.
C4_PasswordedT5577WipedBeforeClone ==
    [][\A t \in Tasks :
         LET l == tasks[t]
             n == tasks'[t]
         IN
         (T5577Flow(n) /\ n.pw_set) =>
            /\ (n.cloned /\ ~l.cloned) => WipedAndReverified(n)
            /\ (/\ l.pc \notin {"read_state", "returned"}
                /\ n.pc \in {"read_state", "returned"}
                /\ ~WipedAndReverified(n))
               => ~n.cloned /\ current'.step = "Error"]_vars

\* A clone was sent to a T5577 that had a password, after wipe and re-detect.
C4_Witness ==
    \E t \in Tasks :
        T5577Flow(tasks[t]) /\ tasks[t].pw_set /\ tasks[t].cloned
        /\ WipedAndReverified(tasks[t])

\* The commands C5 lists, by the name their invocations carry.
WorkflowCommands ==
    {"detect_device", "scan_card", "hf_autopwn", "hf_dump", "write_clone_with_data",
     "hf_write_clone", "verify_clone", "hf_verify_clone"}

\* C5: when a workflow command returns after a device command or a
\* precondition failed past its state guard, the machine is in Error.
C5_FailureLeavesError ==
    [][\A t \in Tasks :
         (/\ tasks[t].pc # "returned"
          /\ tasks'[t].pc = "returned"
          /\ tasks'[t].cmd \in WorkflowCommands
          /\ tasks'[t].out \in {"reported", "device_error", "precondition"})
         => current'.step = "Error"]_vars

\* C6: a handle stored in the process-handle slot is never replaced by the
\* handle of another operation: the slot only goes from occupied to empty.
C6_StoredHandleNeverOverwritten ==
    [][child # NoChild => child' \in {child, NoChild}]_vars

\* C7: an operation that cancel_hf_operation killed returns neither as a
\* success (HfProcessComplete applied) nor as a failure (ReportError applied).
C7_CancelledOutcomeUnknown ==
    [][\A t \in Tasks :
         (tasks[t].proc = "killed" /\ tasks[t].pc # "returned" /\ tasks'[t].pc = "returned")
         => tasks'[t].out \notin {"ok", "reported"}]_vars

\* C8: when the read loop of a streaming operation ends, by exit, error,
\* timeout or kill, the process-handle slot is empty.
C8_SlotEmptyAfterStream ==
    [][\A t \in Tasks :
         (tasks[t].pc = "streaming_read" /\ tasks'[t].pc # "streaming_read")
         => child' = NoChild]_vars

\* A streaming operation ended by an error while it held the slot, and the
\* slot is empty.
C8_Witness ==
    \E t \in Tasks :
        /\ tasks[t].pc = "streaming_done"
        /\ tasks[t].result # "Ok"
        /\ child = NoChild

\* C9: no subprocess is spawned, by run_command or by run_command_streaming,
\* unless the port matches the port pattern and neither the port nor the
\* command contains ';', line feed or carriage return; a call that violates
\* this returns an error with no spawn attempted.
C9_NoSpawnWithoutValidArguments ==
    LET valid == PORT_RE(run.port) /\ ~has_separator(run.port) /\ ~has_separator(run.cmd) IN
    /\ run.attempts > 0 => valid
    /\ (run.pc = "returned" /\ ~valid) => (run.result = "CommandFailed" /\ run.attempts = 0)

\* A streaming call with an accepted port and a command carrying a
\* separator has returned its error.
C9_Witness ==
    /\ run.mode = "streaming"
    /\ run.pc = "returned"
    /\ PORT_RE(run.port)
    /\ has_separator(run.cmd)
    /\ run.result = "CommandFailed"

\* C10: every uid or decoded field that appears in a command returned by
\* build_clone_command has passed validation: no interpolated value carries
\* ';', a space, line feed or carriage return.
C10_InterpolatedValuesValidated ==
    built.result # <<>> =>
        \A i \in 1..Len(built.result[1].args) :
            /\ ~has_separator(built.result[1].args[i])
            /\ ~contains(built.result[1].args[i], " ")

\* The hex digits, as the statement of C11 has them.
HexDigits == Digits \cup {"A", "B", "C", "D", "E", "F", "a", "b", "c", "d", "e", "f"}

-----------------------------------------------------------------------------
(* Properties of transition, one call at a time (SpecFsm): returned' is the *)
(* Result of the call a step makes, the unprimed variables the machine      *)
(* before it.                                                               *)

\* The actions transition handles before its match.
Unconditional == {"ReportError", "Reset", "Disconnect"}

\* The (state, action) pairs the transition table lists: s is a state, name
\* an action's name.
HasEntry(s, name) ==
    LET st == s.step IN
    \/ st = "Idle" /\ name = "StartDetection"
    \/ st = "DetectingDevice" /\ name = "DeviceFound"
    \/ st = "DeviceConnected" /\ name \in {"StartScan", "LoadSavedCard"}
    \/ st = "ScanningCard" /\ name = "CardFound"
    \/ st = "CardIdentified" /\ name \in {"StartHfProcess", "ProceedToWrite", "BackToScan"}
    \/ st = "HfProcessing"
          /\ name \in {"UpdateHfProgress", "HfProcessComplete", "CancelHfProcess", "BackToScan"}
    \/ st = "HfDumpReady" /\ name \in {"ProceedToWrite", "BackToScan"}
    \/ st = "WaitingForBlank" /\ name \in {"BlankReady", "BackToScan"}
    \/ st = "BlankDetected" /\ name \in {"ReDetectBlank", "StartWrite"}
    \/ st = "Writing" /\ name \in {"UpdateWriteProgress", "WriteFinished"}
    \/ st = "Verifying" /\ name = "VerificationResult"
    \/ st = "VerificationComplete" /\ s.success /\ name = "MarkComplete"
    \/ st = "Complete" /\ name \in {"StartDetection", "SoftReset"}
    \/ st = "Error" /\ s.recoverable /\ name = "Retry"
    \/ st = "Error" /\ name = "SoftReset"

\* C12: a call of transition with an action that is none of ReportError,
\* Reset, Disconnect, in a state the table has no entry for with that action,
\* returns Err(InvalidTransition) whose message holds the action's name and
\* the current state's name.
C12_NoEntryRejectedNamingActionAndState ==
    [][(returned'.action \notin Unconditional /\ ~HasEntry(current, returned'.action))
        => /\ returned'.ok = FALSE
           /\ returned'.err =
                <<"InvalidTransition", returned'.action, "is not valid from", current.step>>]_vars

\* StartWrite was applied in Idle and rejected.
C12_Witness ==
    /\ current.step = "Idle"
    /\ returned.action = "StartWrite"
    /\ returned.ok = FALSE
    /\ returned.err = <<"InvalidTransition", "StartWrite", "is not valid from", "Idle">>

\* C13: a call of transition that returns an error leaves the current state
\* and the session context (port, model, firmware) exactly as they were.
C13_RejectedChangesNothing ==
    [][returned'.ok = FALSE
        => /\ current' = current
           /\ port' = port
           /\ model' = model
           /\ firmware' = firmware]_vars

\* StartWrite was rejected in DeviceConnected, the session context stored.
C13_Witness ==
    /\ returned.ok = FALSE
    /\ returned.action = "StartWrite"
    /\ current.step = "DeviceConnected"
    /\ port # NoPort

\* C14: ReportError, Reset and Disconnect are accepted in every state, Error
\* included: a call of transition with one of them never returns an error.
C14_EscapesAlwaysAccepted ==
    returned.action \in Unconditional => returned.ok = TRUE

\* ReportError was applied in Error and accepted.
C14_Witness ==
    /\ returned.action = "ReportError"
    /\ returned.from = "Error"
    /\ returned.ok = TRUE
    /\ current.step = "Error"

\* C15: after Reset or Disconnect, applied in any state, the machine is in
\* Idle and the session context (port, model, firmware) is empty.
C15_ResetAndDisconnectClear ==
    returned.action \in {"Reset", "Disconnect"}
        => /\ current = Idle
           /\ port = NoPort
           /\ model = NONE
           /\ firmware = NONE

\* Disconnect was applied in Writing, hence with a device on record.
C15_Witness ==
    /\ returned.action = "Disconnect"
    /\ returned.from = "Writing"
    /\ current = Idle
    /\ port = NoPort

\* The result r of transition with the timestamp of a Complete successor
\* blanked.
WithoutTimestamp(r) ==
    IF r.current.step = "Complete" THEN [r EXCEPT !.current.timestamp = "-"] ELSE r

C17_CancelReturnsToStoredDevice ==
    [][(returned'.action = "CancelHfProcess" /\ current.step = "HfProcessing")
        => IF port # NoPort /\ model # NONE /\ firmware # NONE
           THEN /\ returned'.ok = TRUE
                /\ found # <<>>
                /\ current' = DeviceConnected(found[1], found[2], found[3])
                /\ <<port', model', firmware'>> = <<Some(found[1]), found[2], found[3]>>
           ELSE /\ returned'.ok = FALSE
                /\ current' = current]_vars

\* CancelHfProcess was applied in HfProcessing and the machine is back in
\* DeviceConnected.
C17_Witness ==
    /\ returned.action = "CancelHfProcess"
    /\ returned.from = "HfProcessing"
    /\ returned.ok = TRUE
    /\ current.step = "DeviceConnected"

\* C18: a call of transition with Retry is accepted exactly when the machine
\* is in Error with recoverable = true, and then the successor is Idle,
\* whatever state the error was reported in; in Error with recoverable =
\* false, as in every other state, Retry is rejected.
C18_RetryOnlyFromRecoverableErrorToIdle ==
    [][returned'.action = "Retry"
        => /\ returned'.ok = (current.step = "Error" /\ current.recoverable = TRUE)
           /\ returned'.ok = TRUE => current' = Idle]_vars

\* Retry was accepted in Error and the machine is in Idle, the device of
\* the session still on record.
C18_Witness ==
    /\ returned.action = "Retry"
    /\ returned.from = "Error"
    /\ returned.ok = TRUE
    /\ current = Idle
    /\ port # NoPort

\* C19: the session context (port, model, firmware) changes only in an
\* accepted DeviceFound, which stores the action's values, and in Reset and
\* Disconnect, which empty it; every other accepted call of transition, like
\* every rejected one, leaves the three fields as they were.
C19_ContextWrittenByDeviceFoundClearedByReset ==
    [][<<port', model', firmware'>> # <<port, model, firmware>>
        => /\ returned'.ok = TRUE
           /\ \/ /\ returned'.action = "DeviceFound"
                 /\ <<port', model', firmware'>> = <<Some(found'[1]), found'[2], found'[3]>>
              \/ /\ returned'.action \in {"Reset", "Disconnect"}
                 /\ <<port', model', firmware'>> = <<NoPort, NONE, NONE>>]_vars

\* DeviceFound was accepted and the session context holds its values.
C19_Witness ==
    /\ returned.action = "DeviceFound"
    /\ returned.ok = TRUE
    /\ last = "DeviceFound"
    /\ found # <<>>
    /\ <<port, model, firmware>> = <<Some(found[1]), found[2], found[3]>>
    /\ current = DeviceConnected(found[1], found[2], found[3])

-----------------------------------------------------------------------------
(* The unrecoverable password of a T5577 blank (Spec).                     *)

\* The step of a T5577 write flow in which `lf t55xx chk`, run because the
\* detect result had password_set = true, answered without a password.
PasswordNotRecovered(t) ==
    /\ tasks[t].pc = "t5577_password"
    /\ tasks[t].pw_set = TRUE
    /\ tasks'[t].pc = "returned"
    /\ tasks'[t].chk = "not_found"

-----------------------------------------------------------------------------
(* Properties of the execution layer (SpecRunner).                         *)

\* C21: the binary candidates of a one-shot command are tried in the order
\* bundled sidecar, PATH name, install locations; a later candidate is tried
\* only if every earlier one failed to spawn: the first candidate that is
\* spawned and runs the command ends the call, whatever its exit code, and
\* the command is not run by a second candidate.
C21_FirstExecutedCandidateEndsCall ==
    [][run.mode = "one_shot" =>
        /\ run.pc = "sidecar" /\ run'.pc = "scopes" => run'.scope = 1
        /\ run.pc = "scopes" /\ run'.pc = "scopes" => run'.scope = run.scope + 1
        /\ run'.executed > run.executed => run.executed = 0 /\ run'.pc = "returned"]_vars

\* The lines of seq after cleaning and trimming, the empty ones left out.
NonEmptyLines(seq) ==
    SelectSeq([i \in 1..Len(seq) |-> trim(strip_ansi(seq[i]))], LAMBDA l : l # <<>>)

\* C22: in a streaming operation the callback has received the non-empty
\* lines of the events so far, in the order the subprocess produced them,
\* and the accumulated output holds the same lines in the same order.
C22_LinesDeliveredInOrder ==
    run.mode = "streaming"
        => /\ run.delivered = NonEmptyLines(run.produced)
           /\ run.accumulated = run.delivered

\* A streaming call has returned after three events, the second blank
\* once cleaned: the callback received the other two in their order.
C22_Witness ==
    /\ run.mode = "streaming"
    /\ run.pc = "returned"
    /\ run.produced = << <<" ", "b", " ">>, <<ESC, "[", "0", "m", " ">>, <<"a">> >>
    /\ run.delivered = << <<"b">>, <<"a">> >>

\* C23: a streaming operation is over, with Timeout if nothing else ended
\* it, no later than timeout_secs after it started, also when the subprocess
\* keeps producing lines.
C23_TimeoutBoundsWholeOperation ==
    run.mode = "streaming" => run.elapsed <= timeout_secs

\* C24: once a one-shot or streaming command has returned Timeout because
\* it exceeded its timeout, no subprocess of the call is running.
C24_TimedOutSubprocessKilled ==
    (run.pc = "returned" /\ run.result = "Timeout") => run.running = 0

-----------------------------------------------------------------------------
(* Properties of build_clone_command for the card types whose clone        *)
(* command takes named numeric flags only (SpecBuilder).                   *)

\* The card types whose arm of build_clone_command ends in None, with the
\* decoded fields each requires.
NoRawFallback == {"AWID", "Nedap", "GProxII", "Gallagher", "Visa2000"}

RequiredFields(card_type) ==
    CASE card_type = "AWID" -> {"facility_code", "card_number"}
      [] card_type = "Nedap" -> {"subtype", "customer_code", "card_number"}
      [] card_type = "GProxII" -> {"facility_code", "card_number"}
      [] card_type = "Gallagher" ->
            {"region_code", "facility_code", "card_number", "issue_level"}
      [] card_type = "Visa2000" -> {"card_number"}

\* A text that denotes an unsigned number: digits, after an optional '+'.
IsNumber(s) ==
    \/ Len(s) >= 1 /\ \A i \in 1..Len(s) : s[i] \in Digits
    \/ Len(s) >= 2 /\ s[1] = "+" /\ \A i \in 2..Len(s) : s[i] \in Digits

\* The digits a command shows for the number that field k of d denotes.
Shown(d, k) == to_string(digits_value(IF d[k][1] = "+" THEN Tail(d[k]) ELSE d[k]))

\* An optional numeric field of d, or the default the command takes.
ShownOr(d, k, default) ==
    IF k \in DOMAIN d /\ IsNumber(d[k]) THEN Shown(d, k) ELSE default

\* The clone command of each protocol, from its build_*_clone function.
DocumentedCommand(card_type, d) ==
    CASE card_type = "AWID" ->
            IF "format" \in DOMAIN d /\ IsNumber(d["format"])
            THEN format("lf awid clone --fmt {} --fc {} --cn {}",
                        <<Shown(d, "format"), Shown(d, "facility_code"),
                          Shown(d, "card_number")>>)
            ELSE format("lf awid clone --fc {} --cn {}",
                        <<Shown(d, "facility_code"), Shown(d, "card_number")>>)
      [] card_type = "Nedap" ->
            format("lf nedap clone --st {} --cc {} --id {}",
                   <<Shown(d, "subtype"), Shown(d, "customer_code"), Shown(d, "card_number")>>)
      [] card_type = "GProxII" ->
            format("lf gproxii clone --xor {} --fmt {} --fc {} --cn {}",
                   <<ShownOr(d, "xor", <<"0">>), ShownOr(d, "format", <<"2", "6">>),
                     Shown(d, "facility_code"), Shown(d, "card_number")>>)
      [] card_type = "Gallagher" ->
            format("lf gallagher clone --rc {} --fc {} --cn {} --il {}",
                   <<Shown(d, "region_code"), Shown(d, "facility_code"),
                     Shown(d, "card_number"), Shown(d, "issue_level")>>)
      [] card_type = "Visa2000" ->
            format("lf visa2000 clone --cn {}", <<Shown(d, "card_number")>>)

AllRequiredValid(card_type, d) ==
    \A k \in RequiredFields(card_type) : k \in DOMAIN d /\ IsNumber(d[k])

\* C25 as stated: for AWID, Nedap, GProxII, Gallagher and Visa2000,
\* build_clone_command returns None when a required decoded field is absent,
\* and exactly the protocol's command when every required field is present
\* and a valid number.
C25_NoneWhenAbsentCommandWhenPresent ==
    (built.pc = "returned" /\ built.card_type \in NoRawFallback)
        => /\ (\E k \in RequiredFields(built.card_type) : k \notin DOMAIN built.decoded)
                  => built.result = <<>>
           /\ AllRequiredValid(built.card_type, built.decoded)
                  => built.result = <<DocumentedCommand(built.card_type, built.decoded)>>

\* C25 amended: for the same card types, build_clone_command returns None
\* when a required decoded field is absent, and also when the uid is empty
\* or holds a character that is not a letter, a digit or a colon; it returns
\* exactly the protocol's command when every required field is present and
\* a valid number and the uid is one or more letters, digits and colons.
C25_CommandWhenPresentAndUidAccepted ==
    (built.pc = "returned" /\ built.card_type \in NoRawFallback)
        => LET uid_accepted ==
                   /\ Len(built.uid) >= 1
                   /\ \A i \in 1..Len(built.uid) :
                          built.uid[i] \in Digits \cup Letters \cup {":"}
           IN
           /\ (\E k \in RequiredFields(built.card_type) : k \notin DOMAIN built.decoded)
                  => built.result = <<>>
           /\ ~uid_accepted => built.result = <<>>
           /\ (uid_accepted /\ AllRequiredValid(built.card_type, built.decoded))
                  => built.result = <<DocumentedCommand(built.card_type, built.decoded)>>

\* build_clone_command was called for Nedap with every required field
\* holding "+7" and returned the command with 7 in each flag.
C25_Witness ==
    /\ built.pc = "returned"
    /\ built.card_type = "Nedap"
    /\ AllRequiredValid("Nedap", built.decoded)
    /\ built.decoded["subtype"] = <<"+", "7">>
    /\ built.result = <<format("lf nedap clone --st {} --cc {} --id {}",
                              <<<<"7">>, <<"7">>, <<"7">>>>)>>

-----------------------------------------------------------------------------
(* Properties of the protocol decoder (SpecParser).                        *)

C30_StripAnsiIdempotent ==
    parsed.pc = "stripped_again" => parsed.again = parsed.output

-----------------------------------------------------------------------------
(* Properties of the write and verify commands (Spec).                     *)

\* The steps in which a write command reports a blank type or a card type
\* it cannot write: the `_` arm of write_clone_with_data, the None arm of
\* build_clone_command in the T5577 and EM4305 flows, and the `_` arm of
\* hf_write_clone.
UnsupportedReported(t) ==
    /\ tasks'[t].pc = "returned"
    /\ tasks'[t].out = "reported"
    /\ \/ tasks[t].pc = "unsupported_blank"
       \/ tasks[t].pc \in {"t5577_clone", "em4305_clone"} /\ ~tasks'[t].cloned
       \/ /\ tasks[t].cmd = "hf_write_clone"
          /\ tasks[t].pc = "hf_report"
          /\ hf_write_steps(tasks[t].blank) = << >>

\* C27: every unsupported card type or unsupported blank type a write
\* command reports puts the machine in Error with recoverable = false.
C27_UnsupportedIsUnrecoverable ==
    [][\A t \in Tasks : UnsupportedReported(t)
        => current'.step = "Error" /\ current'.recoverable = FALSE]_vars

\* C28: every VerificationComplete state has success = true exactly when
\* its list of mismatched fields is empty, so that a failed verification
\* names at least one mismatched field.
C28_SuccessIffNothingMismatched ==
    current.step = "VerificationComplete"
        => (current.success = TRUE <=> current.mismatched_blocks = <<>>)

\* verify_clone has produced a failed verification that names the facility
\* code and the card number.
C28_Witness ==
    /\ current.step = "VerificationComplete"
    /\ current.success = FALSE
    /\ current.mismatched_blocks = <<1, 2>>
    /\ \E t \in Tasks : tasks[t].cmd = "verify_clone" /\ tasks[t].pc = "returned"

\* C29: when detect_blank has detected a magic MIFARE generation other than
\* the one of the expected blank, its transition takes the machine from
\* WaitingForBlank to BlankDetected with the blank type of the detected
\* generation, which is not the expected one, and does not take it to Error.
C29_DetectedGenerationSubstituted ==
    [][\A t \in Tasks :
          /\ tasks[t].pc = "magic_detected"
          /\ tasks[t].gen # NONE
          /\ <<tasks[t].gen>> # expected_generation(tasks[t].blank)
          /\ tasks'[t].pc = "returned"
          => /\ current.step = "WaitingForBlank"
                => /\ current'.step = "BlankDetected"
                   /\ current'.blank_type = generation_to_blank(tasks[t].gen)
                   /\ current'.blank_type # tasks[t].blank
             /\ current'.step = "Error" => current.step = "Error"]_vars

\* detect_blank has returned BlankDetected for a Gen2 card that said it found
\* another generation than the expected one.
C29_Witness ==
    /\ current.step = "BlankDetected"
    /\ current.blank_type = "MagicMifareGen2"
    /\ current.existing_data_type = "Detected other generation"
    /\ \E t \in Tasks : /\ tasks[t].cmd = "detect_blank"
                        /\ tasks[t].pc = "returned"
                        /\ tasks[t].out = "ok"

C32_DetectBlankLeavesWaitingForBlank ==
    [][\A t \in Tasks :
          /\ tasks[t].cmd = "detect_blank"
          /\ tasks[t].pc # "returned"
          /\ tasks'[t].pc = "returned"
          /\ current.step = "WaitingForBlank"
          => \/ current'.step = "BlankDetected"
             \/ /\ current'.step = "Error"
                /\ current'.recoverable = TRUE
                /\ current'.recovery_action = "Retry"]_vars

\* The commands sent hold command a and, after it, command b.
SentThen(sent, a, b) ==
    \A i \in 1..Len(sent) : sent[i] = a => \E j \in (i + 1)..Len(sent) : sent[j] = b

\* C33: when hf_write_clone has returned from the Gen2/CUID workflow and
\* the config-force command was sent, the config-reset command was sent
\* after it, whether the commands in between succeeded or failed.
C33_ConfigResetFollowsConfigForce ==
    \A t \in Tasks :
        tasks[t].cmd = "hf_write_clone" /\ tasks[t].pc = "returned"
            => SentThen(tasks[t].sent, build_mf_gen2_config_force, build_mf_gen2_config_reset)

-----------------------------------------------------------------------------
(* Properties of a client that calls wizard_action only (SpecFrontend).     *)

\* The actions wizard.rs reserves for backend-initiated transitions.
BackendOnly ==
    {"DeviceFound", "CardFound", "BlankReady", "UpdateWriteProgress", "WriteFinished",
     "VerificationResult", "ReportError"}

\* C34: wizard_action never applies DeviceFound, CardFound, BlankReady,
\* UpdateWriteProgress, WriteFinished, VerificationResult or ReportError,
\* and a client that calls nothing but wizard_action on a fresh machine
\* never brings it to DeviceConnected, Writing, Verifying,
\* VerificationComplete or Complete.
C34_FrontendCannotApplyBackendActions ==
    /\ [][returned'.arg.action \notin BackendOnly]_vars
    /\ [](current.step \notin {"DeviceConnected", "Writing", "Verifying",
                               "VerificationComplete", "Complete"})

\* The client started the detection and then had StartWrite rejected.
C34_Witness ==
    /\ current.step = "DetectingDevice"
    /\ returned.action = "StartWrite"
    /\ returned.from = "DetectingDevice"
    /\ returned.ok = FALSE

\* C35: the machine enters HfDumpReady only in the step of an hf_autopwn
\* or hf_dump call that saw a dump and stored its path; a run that ends
\* normally without any dump does not bring the machine to HfDumpReady.
C35_HfDumpReadyOnlyWithDump ==
    [][current.step # "HfDumpReady" /\ current'.step = "HfDumpReady"
          => \E t \in Tasks :
                /\ tasks[t].cmd \in {"hf_autopwn", "hf_dump"}
                /\ tasks[t].pc = "hf_complete"
                /\ tasks'[t].pc = "returned"
                /\ dump_path \in DumpFiles]_vars

\* C36: the dump file hf_write_clone takes from HfOperationState is the
\* dump of the card identified in the current session, never the dump of
\* a card identified before a Reset, Disconnect, BackToScan or new scan.
C36_WrittenDumpIsOfSessionCard ==
    [][\A t \in Tasks :
          /\ tasks[t].cmd = "hf_write_clone"
          /\ tasks[t].pc = "hf_get_dump"
          /\ tasks'[t].pc # "hf_get_dump"
          /\ dump_path # NONE
          => dump_path = dump_file_of(since.card)]_vars

-----------------------------------------------------------------------------
(* Properties of concurrent invocations of one command (SpecRace).          *)

\* The commands that move the machine forward before their device I/O, and
\* the action each applies in the critical section of its state check.
ForwardAction(cmd) ==
    CASE cmd = "detect_device" -> "StartDetection"
      [] cmd = "scan_card" -> "StartScan"
      [] cmd \in {"hf_autopwn", "hf_dump"} -> "StartHfProcess"
      [] cmd \in {"write_clone_with_data", "hf_write_clone"} -> "StartWrite"
      [] OTHER -> NONE

\* Invocation t is past its first critical section and has not returned.
InFlight(t) == tasks[t].pc \notin {"idle", "returned"}

-----------------------------------------------------------------------------
(* The non-recoverable error (SpecFsm).                                     *)

\* C39: in Error with recoverable = false, transition accepts only Reset,
\* Disconnect and ReportError: no action takes the machine from a
\* non-recoverable error back to the workflow with the session kept.
C39_NonRecoverableErrorOnlyResets ==
    [][current.step = "Error" /\ current.recoverable = FALSE /\ returned'.ok = TRUE
        => returned'.action \in {"Reset", "Disconnect", "ReportError"}]_vars

\* C39, amended: in Error with recoverable = false, transition accepts
\* Reset, Disconnect and ReportError always and SoftReset when port, model
\* and firmware are on record, and rejects every other action, Retry among
\* them; the accepted SoftReset takes the machine to DeviceConnected with
\* the device on record and keeps the session context.
C39_NonRecoverableErrorResetsOrSoftResets ==
    [][current.step = "Error" /\ current.recoverable = FALSE
        => /\ returned'.ok =
                \/ returned'.action \in {"Reset", "Disconnect", "ReportError"}
                \/ /\ returned'.action = "SoftReset"
                   /\ port # NoPort /\ model # NONE /\ firmware # NONE
           /\ returned'.action = "SoftReset" /\ returned'.ok = TRUE
                => /\ current' = DeviceConnected(port[1], model, firmware)
                   /\ <<port', model', firmware'>> = <<port, model, firmware>>]_vars

\* Retry was rejected in a non-recoverable error of a session whose device
\* is on record, the state in which SoftReset is accepted.
C39_Witness ==
    /\ current.step = "Error"
    /\ current.recoverable = FALSE
    /\ returned.action = "Retry"
    /\ returned.from = "Error"
    /\ returned.ok = FALSE
    /\ port # NoPort

\* C40: in every reachable state other than Idle, DetectingDevice and Error
\* the session context has port, model and firmware set, so that
\* BackToScan and CancelHfProcess are never rejected for missing device
\* info.
C40_SessionContextSetInWorkflowStates ==
    /\ [](current.step \notin {"Idle", "DetectingDevice", "Error"}
            => port # NoPort /\ model # NONE /\ firmware # NONE)
    /\ [][returned'.action \in {"BackToScan", "CancelHfProcess"} /\ returned'.ok = FALSE
            => returned'.err # RequiresDeviceInfo(returned'.action)]_vars

\* BackToScan was accepted while a blank was awaited and the machine is
\* back in DeviceConnected with the stored device.
C40_Witness ==
    /\ returned.action = "BackToScan"
    /\ returned.from = "WaitingForBlank"
    /\ returned.ok = TRUE
    /\ port # NoPort
    /\ current = DeviceConnected(port[1], model, firmware)

====
